---------------------------- MODULE Spec2Model ----------------------------
(***************************************************************************)
(* A model of the myCobot serial driver: the packet codec, the frame       *)
(* extractor (_parseResponses), the command dispatcher (_sendCommand,      *)
(* _handleResponse, the timeout handlers) of MyCobotController, and the    *)
(* record / replay layer MovementRecorder built on it.                     *)
(*                                                                         *)
(* Bytes are naturals in 0..255.  A position value (degrees, millimetres)  *)
(* handed to the encoder is an integer number of thousandths ("milli"); a  *)
(* decoded position value is an integer number of hundredths, which is the *)
(* rational  readInt16BE / 100.0  of the code.                             *)
(***************************************************************************)
EXTENDS Integers, Sequences, FiniteSets, Bags, TLC

(***************************************************************************)
(* PROTOCOL and COMMAND_IDS (command-ids.ts)                               *)
(***************************************************************************)
HEADER == 254
FOOTER == 250
HEADER_SIZE == 2
FOOTER_SIZE == 1
LENGTH_SIZE == 1
COMMAND_ID_SIZE == 1
MIN_PACKET_SIZE == 5

SOFTWARE_VERSION == 2
GET_ANGLES == 32
SEND_ANGLE == 33
SEND_ANGLES == 34
GET_COORDS == 35
SEND_COORD == 36
SEND_COORDS == 37
PAUSE == 38
RESUME == 40
STOP == 41
IS_IN_POSITION == 42
IS_MOVING == 43
POWER_ON == 16
POWER_OFF == 17
IS_POWER_ON == 18
RELEASE_ALL_SERVOS == 19
IS_SERVO_ENABLE == 80
RELEASE_SERVO == 86
FOCUS_SERVO == 87
GET_SPEED == 64
SET_SPEED == 65
GET_GRIPPER_VALUE == 101
SET_GRIPPER_STATE == 102
SET_GRIPPER_VALUE == 103
SET_GRIPPER_INI == 104
IS_GRIPPER_MOVING == 105
SET_ENCODER == 58
GET_ENCODER == 59
SET_ENCODERS == 60
GET_ENCODERS == 61

(***************************************************************************)
(* Bounds of the model                                                     *)
(***************************************************************************)
\* calls issued on one controller
MaxCalls == 2
\* 'data' events delivered to one controller
MaxData == 2
\* calls issued when every public operation is exercised
MaxOpsCalls == 1
\* payload bytes of a frame fed to the extractor
MaxPayload == 2
\* garbage bytes in front of a frame
MaxGarbage == 4
\* value of the length byte of a frame with a bad footer
MaxBadLen == 2

(***************************************************************************)
(* Sequence helpers                                                        *)
(***************************************************************************)
Drop(s, n) == SubSeq(s, n + 1, Len(s))

Take(s, n) == SubSeq(s, 1, n)

RemoveAt(s, i) == Take(s, i - 1) \o Drop(s, i)

SeqsUpTo(S, n) == UNION {[1..k -> S] : k \in 0..n}

Range(s) == {s[i] : i \in 1..Len(s)}

(***************************************************************************)
(* Buffer primitives of Node.js used by the codec.  A result is a record   *)
(* [ok, bytes]: ok = FALSE is the RangeError the primitive throws.         *)
(***************************************************************************)
Thrown == [ok |-> FALSE, bytes |-> <<>>]

Bytes(b) == [ok |-> TRUE, bytes |-> b]

\* fault variant of WriteInt16BE: an out-of-range value wraps
WriteInt16BEWrapping(v) ==
  LET u == v % 65536 IN [ok |-> TRUE, bytes |-> <<u \div 256, u % 256>>]

\* buf.writeInt16BE(v): two's complement, high byte first; out of range throws
WriteInt16BE(v) ==
  IF v < -32768 \/ v > 32767 THEN Thrown
  ELSE LET u == v % 65536 IN Bytes(<<u \div 256, u % 256>>)

\* buf.writeUInt8(v): out of range throws
WriteUInt8(v) ==
  IF v < 0 \/ v > 255 THEN Thrown ELSE Bytes(<<v>>)

\* Buffer.from(array): every element is reduced modulo 256
BufferFrom(data) == [i \in 1..Len(data) |-> data[i] % 256]

\* fault variant of ReadInt16BE: the sign bit is not interpreted
ReadUInt16BE(data, i) == data[i + 1] * 256 + data[i + 2]

\* data.readInt16BE(i), i a 0-based offset with i + 2 <= data.length
ReadInt16BE(data, i) ==
  LET u == data[i + 1] * 256 + data[i + 2]
  IN  IF u >= 32768 THEN u - 65536 ELSE u

\* Math.round(x * 100) for x given in thousandths: round half up
MathRound100(milli) == (milli + 5) \div 10

\* concatenation of write results; a throw anywhere aborts the encoding
RECURSIVE Concat(_)
Concat(parts) ==
  IF parts = <<>> THEN Bytes(<<>>)
  ELSE LET rest == Concat(Tail(parts))
       IN  IF Head(parts).ok /\ rest.ok
           THEN Bytes(Head(parts).bytes \o rest.bytes)
           ELSE Thrown

(***************************************************************************)
(* _encodeData                                                             *)
(***************************************************************************)
EncodeData(commandId, data) ==
  IF data = <<>> THEN Bytes(<<>>)
  ELSE IF commandId = SEND_ANGLES THEN
    IF Len(data) < 7 THEN Thrown
    ELSE Concat([i \in 1..6 |-> WriteInt16BE(MathRound100(data[i]))]
                \o <<WriteUInt8(data[7])>>)
  ELSE IF commandId = SEND_COORDS THEN
    IF Len(data) < 8 THEN Thrown
    ELSE Concat([i \in 1..6 |-> WriteInt16BE(MathRound100(data[i]))]
                \o <<WriteUInt8(data[7]), WriteUInt8(data[8])>>)
  ELSE IF commandId \in {SEND_ANGLE, SEND_COORD} THEN
    IF Len(data) < 3 THEN Thrown
    ELSE Concat(<<WriteUInt8(data[1]), WriteInt16BE(MathRound100(data[2])),
                  WriteUInt8(data[3])>>)
  ELSE IF commandId \in {SET_GRIPPER_STATE, SET_GRIPPER_VALUE} THEN
    IF Len(data) < 2 THEN Thrown
    ELSE Concat(<<WriteUInt8(data[1]), WriteUInt8(data[2])>>)
  ELSE Bytes(BufferFrom(data))

(***************************************************************************)
(* _decodeData.  A result is [ok, value]; ok = FALSE is the RangeError     *)
(* readInt16BE throws when it reads past the end of the payload.           *)
(***************************************************************************)
DecodeThrown == [ok |-> FALSE, value |-> <<>>]

Decoded(v) == [ok |-> TRUE, value |-> v]

\* the loop  for (i = 0; i < data.length; i += 2) decoded.push(readInt16BE(i)/100)
DecodeVector(data) ==
  IF Len(data) % 2 = 1 THEN DecodeThrown
  ELSE Decoded([k \in 1..(Len(data) \div 2) |-> ReadInt16BE(data, 2 * (k - 1))])

DecodeData(commandId, data) ==
  IF commandId \in {SOFTWARE_VERSION, GET_SPEED, GET_GRIPPER_VALUE} THEN
    Decoded(IF Len(data) > 0 THEN data[1] ELSE 0)
  ELSE IF commandId \in {GET_ANGLES, GET_COORDS, GET_ENCODERS} THEN
    DecodeVector(data)
  ELSE IF commandId \in {IS_POWER_ON, IS_GRIPPER_MOVING, IS_MOVING,
                         IS_IN_POSITION, IS_SERVO_ENABLE} THEN
    Decoded(Len(data) > 0 /\ data[1] = 1)
  ELSE IF commandId = GET_ENCODER THEN
    IF Len(data) < 2 THEN DecodeThrown ELSE Decoded(ReadInt16BE(data, 0))
  ELSE Decoded(data)


(***************************************************************************)
(* State                                                                   *)
(***************************************************************************)
VARIABLES
  \* MyCobotController
  isConnected,      \* this.isConnected
  portOpen,         \* the serial port is open (it delivers 'data' events)
  buffer,           \* this.buffer
  responseQueue,    \* this.responseQueue: <<[command, call]>>, call the owner
  timers,           \* armed command timeouts, in arming order
  calls,            \* every call made on the controller, with its outcome
                    \* and, in value, the tuple of what it was resolved with
  portWrites,       \* the frames handed to port.write, in order
  emitted,          \* the frames handed to _handleResponse, in order
  handlerErrors,    \* exceptions thrown out of the 'data' handler
  timeout,          \* this.timeout
  \* the byte stream fed to the extractor
  stream,           \* bytes the transport has not delivered yet
  scenario,         \* what the stream was built from
  fed,              \* 'data' events counted against MaxData
  \* the codec round trip
  codec,
  \* MovementRecorder
  isRecording,
  isPlaying,
  recordingStartTime,
  currentRecording,
  recordingTimer,
  now,              \* performance.now()
  pc,               \* where each caller of the recorder is suspended
  chains,           \* the recordFrame chains started by _startRecordingLoop
  robotLog,         \* bag of the robot commands the recorder has issued
  documents         \* the recording documents handed to fs.writeFile

ctrlVars == <<isConnected, portOpen, buffer, responseQueue, timers, calls,
              portWrites, emitted, handlerErrors, timeout>>

feedVars == <<stream, scenario, fed>>

recVars == <<isRecording, isPlaying, recordingStartTime, currentRecording,
             recordingTimer, now, pc, chains, robotLog, documents>>

vars == <<ctrlVars, feedVars, codec, recVars>>

(***************************************************************************)
(* _sendCommand: the frame and the guards                                  *)
(***************************************************************************)
\* fault variant: the length byte counts the payload only
BuildFrameLenOfPayload(commandId, encodedData) ==
  <<HEADER, HEADER, Len(encodedData), commandId>>
    \o encodedData \o <<FOOTER>>

\* fault variant: the footer is left to a later write
BuildFrameNoFooter(commandId, encodedData) ==
  <<HEADER, HEADER, Len(encodedData) + 2, commandId>> \o encodedData

\* [HEADER][HEADER][LEN][CMD][payload][FOOTER], LEN = payload size + 2
BuildFrame(commandId, encodedData) ==
  <<HEADER, HEADER, Len(encodedData) + 2, commandId>>
    \o encodedData \o <<FOOTER>>

\* _getCommandTimeout
GetCommandTimeout(commandId) ==
  IF commandId = POWER_ON THEN 8000
  ELSE IF commandId \in {POWER_OFF, RELEASE_ALL_SERVOS} THEN 3000
  ELSE IF commandId \in {SEND_ANGLE, SEND_ANGLES, SEND_COORD, SEND_COORDS}
       THEN 300
  ELSE 500

\* _sendCommand past its guards, as [outcome, frame]: "encerr" is a throw of
\* _encodeData or of writeUInt8(length), before port.write; "pending"
\* registers a PendingCommand; "sent" is the immediate Promise.resolve().
SendBody(commandId, data, waitForResponse) ==
  LET enc == EncodeData(commandId, data)
  IN  IF ~enc.ok \/ ~WriteUInt8(Len(enc.bytes) + 2).ok
      THEN [outcome |-> "encerr", frame |-> <<>>]
      ELSE [outcome |-> IF waitForResponse THEN "pending" ELSE "sent",
            frame |-> BuildFrame(commandId, enc.bytes)]

\* fault variant: the isConnected guard is missing
SendCommandUnguarded(connected, commandId, data, waitForResponse) ==
  SendBody(commandId, data, waitForResponse)

\* _sendCommand: "connerr" is the throw of the isConnected guard
SendCommand(connected, commandId, data, waitForResponse) ==
  IF ~connected THEN [outcome |-> "connerr", frame |-> <<>>]
  ELSE SendBody(commandId, data, waitForResponse)

(***************************************************************************)
(* _handleResponse                                                         *)
(***************************************************************************)
Matching(queue, commandId) ==
  {i \in 1..Len(queue) : queue[i].command = commandId}

MinOf(S) == CHOOSE i \in S : \A j \in S : i <= j

MaxOf(S) == CHOOSE i \in S : \A j \in S : i >= j

\* fault variant: the latest-registered matching entry is taken
FindPendingLast(queue, commandId) ==
  IF Matching(queue, commandId) = {} THEN 0
  ELSE MaxOf(Matching(queue, commandId))

\* responseQueue.find(item => item.command === commandId), 0 when none
FindPending(queue, commandId) ==
  IF Matching(queue, commandId) = {} THEN 0
  ELSE MinOf(Matching(queue, commandId))

\* [queue, resolved, threw]: the entry is spliced out before the payload is
\* decoded, so a throwing decode leaves it removed and unresolved.
HandleResponse(commandId, data, queue) ==
  LET i == FindPending(queue, commandId)
  IN  IF i = 0
      THEN [queue |-> queue, resolved |-> <<>>, threw |-> FALSE]
      ELSE LET d == DecodeData(commandId, data)
           IN  [queue |-> RemoveAt(queue, i),
                resolved |-> IF d.ok
                             THEN <<[call |-> queue[i].call, value |-> d.value]>>
                             ELSE <<>>,
                threw |-> ~d.ok]

(***************************************************************************)
(* _parseResponses                                                         *)
(***************************************************************************)
\* fault variant: only the head of the buffer is tested, nothing is skipped
FindHeaderAtHead(buf) ==
  IF buf[1] = HEADER /\ buf[2] = HEADER THEN 1 ELSE 0

\* the scan for two consecutive HEADER bytes: 1-based position, 0 when none
FindHeader(buf) ==
  LET S == {i \in 1..(Len(buf) - 1) : buf[i] = HEADER /\ buf[i + 1] = HEADER}
  IN  IF S = {} THEN 0 ELSE MinOf(S)

\* fault variant: the footer is not checked
FooterUnchecked(packet, packetLength) == packetLength > 3

\* packet[packetLength - 1] === PROTOCOL.FOOTER
FooterOk(packet, packetLength) == packet[packetLength] = FOOTER

\* st = [buffer, queue, emitted, resolved, threw]; one call runs the while
\* loop to its end.  An exception of _handleResponse leaves the loop before
\* the packet is sliced off the buffer.
RECURSIVE ParseLoop(_)
ParseLoop(st) ==
  IF Len(st.buffer) < MIN_PACKET_SIZE THEN st
  ELSE
    LET startIndex == FindHeader(st.buffer) IN
    IF startIndex = 0 THEN [st EXCEPT !.buffer = <<>>]
    ELSE
      LET buf == Drop(st.buffer, startIndex - 1) IN
      IF Len(buf) < 3 THEN [st EXCEPT !.buffer = buf]
      ELSE
        LET packetLength == HEADER_SIZE + LENGTH_SIZE + buf[3] IN
        IF Len(buf) < packetLength THEN [st EXCEPT !.buffer = buf]
        ELSE
          LET packet == Take(buf, packetLength) IN
          IF FooterOk(packet, packetLength)
          THEN
            LET commandId == packet[4]
                data == SubSeq(packet, 5, packetLength - 1)
                h == HandleResponse(commandId, data, st.queue)
                seen == Append(st.emitted,
                               [command |-> commandId, data |-> data])
            IN  IF h.threw
                THEN [buffer |-> buf, queue |-> h.queue, emitted |-> seen,
                      resolved |-> st.resolved, threw |-> TRUE]
                ELSE ParseLoop([buffer |-> Drop(buf, packetLength),
                                queue |-> h.queue, emitted |-> seen,
                                resolved |-> st.resolved \o h.resolved,
                                threw |-> FALSE])
          ELSE ParseLoop([st EXCEPT !.buffer = Drop(buf, packetLength)])

ParseResponses(buf, queue) ==
  ParseLoop([buffer |-> buf, queue |-> queue, emitted |-> <<>>,
             resolved |-> <<>>, threw |-> FALSE])

(***************************************************************************)
(* The 'data' handler: append the chunk, parse, complete the resolved      *)
(* callers (resolve() clears the caller's timeout).                        *)
(***************************************************************************)
ResolvedCalls(r) == {r.resolved[i].call : i \in 1..Len(r.resolved)}

ValueOf(r, c) ==
  (CHOOSE i \in 1..Len(r.resolved) : r.resolved[i].call = c)

Complete(cs, r, at) ==
  [c \in 1..Len(cs) |->
     IF c \in ResolvedCalls(r)
     THEN [cs[c] EXCEPT !.outcome = "resolved",
                        !.value = <<r.resolved[ValueOf(r, c)].value>>,
                        !.at = at]
     ELSE cs[c]]

\* fault variant: resolve() does not clear the caller's timeout
KeepTimers(ts, dropped) == ts

\* clearTimeout(timeoutId) in the resolve closure of each resolved caller
SelectTimers(ts, dropped) ==
  SelectSeq(ts, LAMBDA t : t.call \notin dropped)

OnDataChunk(chunk) ==
  LET r == ParseResponses(buffer \o chunk, responseQueue)
  IN  /\ buffer' = r.buffer
      /\ responseQueue' = r.queue
      /\ emitted' = emitted \o r.emitted
      /\ handlerErrors' = handlerErrors + (IF r.threw THEN 1 ELSE 0)
      /\ calls' = Complete(calls, r, Len(emitted) + Len(r.emitted))
      /\ timers' = SelectTimers(timers, ResolvedCalls(r))
      /\ UNCHANGED <<isConnected, portOpen, portWrites, timeout>>

(***************************************************************************)
(* The public operations of MyCobotController.  args is the tuple of the   *)
(* call's arguments (a position vector is one argument, a tuple itself).   *)
(***************************************************************************)
IdOps == {"isServoEnable", "releaseServo", "focusServo", "getEncoder"}

ReadOps == {"getSystemVersion", "isPowerOn", "isServoEnable", "getSpeed",
            "getAngles", "getCoords", "isMoving", "isInPosition",
            "getGripperValue", "isGripperMoving", "getEncoder", "getEncoders"}

OpCommand(op) ==
  CASE op = "getSystemVersion" -> SOFTWARE_VERSION
    [] op = "powerOn" -> POWER_ON
    [] op = "powerOff" -> POWER_OFF
    [] op = "isPowerOn" -> IS_POWER_ON
    [] op = "releaseAllServos" -> RELEASE_ALL_SERVOS
    [] op = "isServoEnable" -> IS_SERVO_ENABLE
    [] op = "releaseServo" -> RELEASE_SERVO
    [] op = "focusServo" -> FOCUS_SERVO
    [] op = "getSpeed" -> GET_SPEED
    [] op = "setSpeed" -> SET_SPEED
    [] op = "getAngles" -> GET_ANGLES
    [] op = "sendAngles" -> SEND_ANGLES
    [] op = "sendAngle" -> SEND_ANGLE
    [] op = "getCoords" -> GET_COORDS
    [] op = "sendCoords" -> SEND_COORDS
    [] op = "sendCoord" -> SEND_COORD
    [] op = "pause" -> PAUSE
    [] op = "resume" -> RESUME
    [] op = "stop" -> STOP
    [] op = "isMoving" -> IS_MOVING
    [] op = "isInPosition" -> IS_IN_POSITION
    [] op = "setGripperState" -> SET_GRIPPER_STATE
    [] op = "setGripperValue" -> SET_GRIPPER_VALUE
    [] op = "setGripperIni" -> SET_GRIPPER_INI
    [] op = "getGripperValue" -> GET_GRIPPER_VALUE
    [] op = "isGripperMoving" -> IS_GRIPPER_MOVING
    [] op = "getEncoder" -> GET_ENCODER
    [] op = "getEncoders" -> GET_ENCODERS
    [] op = "setEncoder" -> SET_ENCODER
    [] op = "setEncoders" -> SET_ENCODERS

\* fault variant: every operation waits for a response
OpWaitsAlways(op) == TRUE

\* the third argument of _sendCommand
OpWaits(op) == op \in ReadOps

\* the data array handed to _sendCommand
OpData(op, args) ==
  CASE op \in IdOps \/ op = "setSpeed" -> <<args[1]>>
    [] op = "sendAngles" -> args[1] \o <<args[2]>>
    [] op = "sendCoords" -> args[1] \o <<args[2], args[3]>>
    [] op \in {"sendAngle", "sendCoord"} -> <<args[1], args[2], args[3]>>
    [] op \in {"setGripperState", "setGripperValue", "setEncoder"} ->
         <<args[1], args[2]>>
    [] op = "setEncoders" -> args[1]
    [] OTHER -> <<>>

SpeedOk(speed) == ~(speed < 0 \/ speed > 100)

IdOk(id) == ~(id < 1 \/ id > 6)

\* fault variant: the argument checks are missing
ValidateNothing(op, args) == TRUE

\* the argument checks at the head of each public operation
Validate(op, args) ==
  CASE op \in IdOps \/ op = "setEncoder" -> IdOk(args[1])
    [] op = "setSpeed" -> SpeedOk(args[1])
    [] op = "sendAngles" -> Len(args[1]) = 6 /\ SpeedOk(args[2])
    [] op = "sendCoords" ->
         Len(args[1]) = 6 /\ SpeedOk(args[2]) /\ ~(args[3] # 0 /\ args[3] # 1)
    [] op \in {"sendAngle", "sendCoord"} -> IdOk(args[1]) /\ SpeedOk(args[3])
    [] op = "setGripperState" ->
         ~(args[1] # 0 /\ args[1] # 1) /\ SpeedOk(args[2])
    [] op = "setGripperValue" -> SpeedOk(args[2])
    [] op = "setEncoders" -> Len(args[1]) = 6
    [] OTHER -> TRUE

\* one call of a public operation: the checks, then _sendCommand
CallResult(connected, op, args) ==
  IF ~Validate(op, args) THEN [outcome |-> "valerr", frame |-> <<>>]
  ELSE SendCommand(connected, OpCommand(op), OpData(op, args), OpWaits(op))

Invoke(op, args) ==
  LET r == CallResult(isConnected, op, args)
      c == Len(calls) + 1
      waits == r.outcome = "pending"
  IN  /\ calls' = Append(calls,
                    [op |-> op, args |-> args, command |-> OpCommand(op),
                     connected |-> isConnected, outcome |-> r.outcome,
                     value |-> <<>>, frame |-> r.frame, at |-> Len(emitted)])
      /\ portWrites' = IF r.frame # <<>> THEN Append(portWrites, r.frame)
                       ELSE portWrites
      /\ responseQueue' =
           IF waits
           THEN Append(responseQueue, [command |-> OpCommand(op), call |-> c])
           ELSE responseQueue
      /\ timers' =
           IF waits
           THEN Append(timers, [call |-> c, command |-> OpCommand(op),
                                ms |-> GetCommandTimeout(OpCommand(op))])
           ELSE timers
      /\ UNCHANGED <<isConnected, portOpen, buffer, emitted, handlerErrors,
                     timeout>>

(***************************************************************************)
(* The timeout handler armed by _sendCommand                               *)
(***************************************************************************)
\* fault variant: the handler leaves the pending set alone
TimeoutSpliceNothing(queue, commandId) == queue

\* index = findIndex(item => item.command === commandId); splice when found
TimeoutSplice(queue, commandId) ==
  IF Matching(queue, commandId) = {} THEN queue
  ELSE RemoveAt(queue, MinOf(Matching(queue, commandId)))

\* fault variant: an armed timeout never expires
TimerNeverFires(i) == FALSE

\* setTimeout order: a timer armed earlier with a delay that is not longer
\* expires first
TimerMayFire(i) == \A j \in 1..(i - 1) : timers[j].ms > timers[i].ms

\* fault variant: a timeout marks the controller disconnected
OnTimeoutDisconnects(i) ==
  /\ TimerMayFire(i)
  /\ responseQueue' = TimeoutSplice(responseQueue, timers[i].command)
  /\ calls' = [calls EXCEPT ![timers[i].call].outcome = "timeout",
                            ![timers[i].call].at = Len(emitted)]
  /\ timers' = RemoveAt(timers, i)
  /\ isConnected' = FALSE
  /\ UNCHANGED <<portOpen, buffer, portWrites, emitted, handlerErrors,
                 timeout>>

OnTimeout(i) ==
  /\ TimerMayFire(i)
  /\ responseQueue' = TimeoutSplice(responseQueue, timers[i].command)
  /\ calls' = [calls EXCEPT ![timers[i].call].outcome = "timeout",
                            ![timers[i].call].at = Len(emitted)]
  /\ timers' = RemoveAt(timers, i)
  /\ UNCHANGED <<isConnected, portOpen, buffer, portWrites, emitted,
                 handlerErrors, timeout>>

(***************************************************************************)
(* The transport's events (_initializePort)                                *)
(***************************************************************************)
OnOpen ==
  /\ ~portOpen
  /\ portOpen' = TRUE
  /\ isConnected' = TRUE
  /\ UNCHANGED <<buffer, responseQueue, timers, calls, portWrites, emitted,
                 handlerErrors, timeout>>

OnClose ==
  /\ portOpen
  /\ portOpen' = FALSE
  /\ isConnected' = FALSE
  /\ UNCHANGED <<buffer, responseQueue, timers, calls, portWrites, emitted,
                 handlerErrors, timeout>>

OnError ==
  /\ isConnected
  /\ isConnected' = FALSE
  /\ UNCHANGED <<portOpen, buffer, responseQueue, timers, calls, portWrites,
                 emitted, handlerErrors, timeout>>

(***************************************************************************)
(* Initial values                                                          *)
(***************************************************************************)
NoScenario == [kind |-> "none"]

\* options = {} (the default argument of the constructor)
NoOptions == [k \in {} |-> 0]

\* the constructor options tried
ControllerOptions == {NoOptions, [timeout |-> 1000], [timeout |-> 2000]}

\* options.timeout ?? 500
OptionTimeout(options) ==
  IF "timeout" \in DOMAIN options THEN options.timeout ELSE 500

\* the controller constructed with the given options
CtrlInitWith(options) ==
  /\ isConnected = FALSE
  /\ portOpen = FALSE
  /\ buffer = <<>>
  /\ responseQueue = <<>>
  /\ timers = <<>>
  /\ calls = <<>>
  /\ portWrites = <<>>
  /\ emitted = <<>>
  /\ handlerErrors = 0
  /\ timeout = OptionTimeout(options)

CtrlInit == CtrlInitWith(NoOptions)

FeedInit ==
  /\ stream = <<>>
  /\ scenario = NoScenario
  /\ fed = 0

CodecInit == codec = [phase |-> "none"]

RecInit ==
  /\ isRecording = FALSE
  /\ isPlaying = FALSE
  /\ recordingStartTime = 0
  /\ currentRecording = <<>>
  /\ recordingTimer = 0
  /\ now = 0
  /\ pc = <<>>
  /\ chains = <<>>
  /\ documents = {}
  /\ robotLog = EmptyBag

(***************************************************************************)
(* Spec: the dispatcher with its callers, the device and the timers        *)
(***************************************************************************)
\* the calls the dispatcher is driven with
CoreCalls ==
  {<<"getAngles", <<>>>>, <<"getEncoder", <<1>>>>, <<"powerOn", <<>>>>}

\* what the device sends: well-formed and short responses, whole or in halves
DeviceChunks ==
  {BuildFrame(GET_ANGLES, <<0, 100>>),
   BuildFrame(GET_ANGLES, <<7>>),
   BuildFrame(GET_ENCODER, <<255, 251>>),
   BuildFrame(GET_ENCODER, <<1>>),
   BuildFrame(POWER_ON, <<>>),
   Take(BuildFrame(GET_ANGLES, <<0, 100>>), 3),
   Drop(BuildFrame(GET_ANGLES, <<0, 100>>), 3)}

Call ==
  /\ Len(calls) < MaxCalls
  /\ \E inv \in CoreCalls : Invoke(inv[1], inv[2])
  /\ UNCHANGED <<feedVars, codec, recVars>>

Data ==
  /\ portOpen
  /\ fed < MaxData
  /\ \E chunk \in DeviceChunks : OnDataChunk(chunk)
  /\ fed' = fed + 1
  /\ UNCHANGED <<stream, scenario, codec, recVars>>

Timeout ==
  /\ \E i \in 1..Len(timers) : OnTimeout(i)
  /\ UNCHANGED <<feedVars, codec, recVars>>

Open == OnOpen /\ UNCHANGED <<feedVars, codec, recVars>>

Close == OnClose /\ UNCHANGED <<feedVars, codec, recVars>>

Error == OnError /\ UNCHANGED <<feedVars, codec, recVars>>

Init == CtrlInit /\ FeedInit /\ CodecInit /\ RecInit

Next == Call \/ Data \/ Timeout \/ Open \/ Close \/ Error

Spec == Init /\ [][Next]_vars

\* an armed setTimeout expires: the timeout handler is eventually run
SpecLive == Spec /\ WF_vars(Timeout)

\* the dispatcher of a controller constructed with any of ControllerOptions
InitCtor ==
  /\ \E options \in ControllerOptions :
       /\ CtrlInitWith(options)
       /\ scenario = [kind |-> "constructor", options |-> options]
  /\ stream = <<>>
  /\ fed = 0
  /\ CodecInit /\ RecInit

SpecCtor == InitCtor /\ [][Next]_vars

(***************************************************************************)
(* SpecOps: every public operation, with arguments inside and outside the  *)
(* checked ranges, on a controller that is connected or not                *)
(***************************************************************************)
SampleIds == {0, 1, 6, 7}

SampleSpeeds == {-1, 0, 100, 101}

SampleFlags == {0, 1, 2}

SampleVectors == {[i \in 1..n |-> 0] : n \in {5, 6, 7}}

\* angles and coordinates in thousandths: 90, the largest and the smallest
\* value that fits 16 bits after scaling, and their neighbours outside
SampleValues == {90000, 327674, 327675, -327685, -327686}

\* position vectors: all zero, and one whose last element is too large
MoveVectors ==
  SampleVectors \cup {[i \in 1..6 |-> IF i = 6 THEN 327675 ELSE 0]}

\* encoder values inside and outside a byte
EncoderValues == {0, 255, 256, 2048}

EncoderVectors ==
  SampleVectors \cup {[i \in 1..6 |-> IF i = 1 THEN 256 ELSE 0]}

NoArgOps ==
  {"getSystemVersion", "powerOn", "powerOff", "isPowerOn", "releaseAllServos",
   "getSpeed", "getAngles", "getCoords", "pause", "resume", "stop",
   "isMoving", "isInPosition", "setGripperIni", "getGripperValue",
   "isGripperMoving", "getEncoders"}

AllCalls ==
  {<<op, <<>>>> : op \in NoArgOps}
  \cup {<<op, <<id>>>> : op \in IdOps, id \in SampleIds}
  \cup {<<"setSpeed", <<sp>>>> : sp \in SampleSpeeds}
  \cup {<<"sendAngles", <<v, sp>>>> : v \in MoveVectors, sp \in SampleSpeeds}
  \cup {<<"sendCoords", <<v, x[1], x[2]>>>> :
          v \in MoveVectors, x \in SampleSpeeds \X SampleFlags}
  \cup {<<op, <<x[1], x[2], x[3]>>>> :
          op \in {"sendAngle", "sendCoord"},
          x \in SampleIds \X SampleValues \X SampleSpeeds}
  \cup {<<"setGripperState", <<st, sp>>>> :
          st \in SampleFlags, sp \in SampleSpeeds}
  \cup {<<"setGripperValue", <<50, sp>>>> : sp \in SampleSpeeds}
  \cup {<<"setEncoder", <<id, e>>>> : id \in SampleIds, e \in EncoderValues}
  \cup {<<"setEncoders", <<v>>>> : v \in EncoderVectors}

OpsCall ==
  /\ Len(calls) < MaxOpsCalls
  /\ \E inv \in AllCalls : Invoke(inv[1], inv[2])
  /\ UNCHANGED <<feedVars, codec, recVars>>

NextOps == OpsCall \/ Timeout \/ Open \/ Close \/ Error

SpecOps == Init /\ [][NextOps]_vars

(***************************************************************************)
(* SpecExtract: a byte stream delivered to the 'data' handler in chunks of *)
(* every size.  The stream is one frame as _sendCommand builds it, alone,  *)
(* behind garbage bytes, or behind a complete frame with a bad footer; the *)
(* controller is connected and the operation the frame answers has been    *)
(* called or not.                                                          *)
(***************************************************************************)
PayloadBytes == {1, HEADER, FOOTER}

GarbageBytes == {0, HEADER}

BadBytes == {0, HEADER, FOOTER}

Payloads == SeqsUpTo(PayloadBytes, MaxPayload)

Garbage == SeqsUpTo(GarbageBytes, MaxGarbage) \ {<<>>}

\* [HEADER][HEADER][L][L bytes], the last byte of the L + 3 not the footer
BadFrames ==
  {<<HEADER, HEADER, Len(b)>> \o b : b \in SeqsUpTo(BadBytes, MaxBadLen)}
    \ {f \in {<<HEADER, HEADER, Len(b)>> \o b : b \in SeqsUpTo(BadBytes, MaxBadLen)} :
         f[Len(f)] = FOOTER}

ExtractCalls == CoreCalls

Scenarios ==
  {[kind |-> "frame", op |-> inv[1], args |-> inv[2], payload |-> p,
    garbage |-> <<>>, bad |-> <<>>, called |-> b] :
       inv \in ExtractCalls, p \in Payloads, b \in BOOLEAN}
  \cup
  {[kind |-> "garbage", op |-> inv[1], args |-> inv[2], payload |-> p,
    garbage |-> g, bad |-> <<>>, called |-> b] :
       inv \in ExtractCalls, p \in Payloads, b \in BOOLEAN, g \in Garbage}
  \cup
  {[kind |-> "badfooter", op |-> inv[1], args |-> inv[2], payload |-> p,
    garbage |-> <<>>, bad |-> f, called |-> b] :
       inv \in ExtractCalls, p \in Payloads, b \in BOOLEAN, f \in BadFrames}

ScenarioFrame(sc) == BuildFrame(OpCommand(sc.op), sc.payload)

ScenarioStream(sc) == sc.garbage \o sc.bad \o ScenarioFrame(sc)

\* the controller after connect() and, when sc.called, one call of sc.op
ExtractInit ==
  /\ scenario \in Scenarios
  /\ stream = ScenarioStream(scenario)
  /\ fed = 0
  /\ isConnected = TRUE
  /\ portOpen = TRUE
  /\ buffer = <<>>
  /\ emitted = <<>>
  /\ handlerErrors = 0
  /\ timeout = OptionTimeout(NoOptions)
  /\ LET r == CallResult(TRUE, scenario.op, scenario.args)
         cmd == OpCommand(scenario.op)
         waits == scenario.called /\ r.outcome = "pending"
     IN  /\ calls = IF scenario.called
                    THEN <<[op |-> scenario.op, args |-> scenario.args,
                            command |-> cmd, connected |-> TRUE,
                            outcome |-> r.outcome, value |-> <<>>,
                            frame |-> r.frame, at |-> 0]>>
                    ELSE <<>>
         /\ portWrites = IF scenario.called THEN <<r.frame>> ELSE <<>>
         /\ responseQueue = IF waits THEN <<[command |-> cmd, call |-> 1]>>
                            ELSE <<>>
         /\ timers = IF waits
                     THEN <<[call |-> 1, command |-> cmd,
                             ms |-> GetCommandTimeout(cmd)]>>
                     ELSE <<>>

Feed ==
  /\ \E n \in 1..Len(stream) :
       /\ OnDataChunk(Take(stream, n))
       /\ stream' = Drop(stream, n)
  /\ UNCHANGED <<scenario, fed, codec, recVars>>

InitExtract == ExtractInit /\ CodecInit /\ RecInit

NextExtract == Feed

SpecExtract == InitExtract /\ [][NextExtract]_vars

(***************************************************************************)
(*                              PROPERTIES                                 *)
(***************************************************************************)
Callers == 1..Len(calls)

\* the frames handed to _handleResponse in the current step
NewFrames == Len(emitted') - Len(emitted)

NewFrame(k) == emitted'[Len(emitted) + k]

HasEntry(c) == \E i \in 1..Len(responseQueue) : responseQueue[i].call = c

HasTimer(c) == \E i \in 1..Len(timers) : timers[i].call = c

(***************************************************************************)
(* C2.  A response frame always resolves the earliest-registered pending   *)
(* entry with its command id: in a step that hands a frame to the          *)
(* dispatcher while entries with the frame's command id are pending, the   *)
(* caller of the earliest of them is resolved (so two same-id calls are    *)
(* resolved by two responses in the order they were sent).                 *)
(***************************************************************************)
C2_ResponseResolvesEarliest ==
  [][NewFrames >= 1 =>
       LET m == Matching(responseQueue, NewFrame(1).command)
       IN  m # {} => calls'[responseQueue[MinOf(m)].call].outcome = "resolved"
    ]_vars

\* The order alone: whenever a response resolves a caller, that caller owned
\* the earliest-registered pending entry with the frame's command id.
C2_OnlyEarliestIsResolved ==
  [][\A c \in Callers :
       (calls[c].outcome = "pending" /\ calls'[c].outcome = "resolved") =>
         /\ HasEntry(c)
         /\ \A i \in Matching(responseQueue, calls[c].command) :
              responseQueue[i].call < c => calls'[responseQueue[i].call].outcome = "resolved"
    ]_vars

(***************************************************************************)
(* C3.  As stated: once a command has failed with a timeout, a response    *)
(* frame for its command id that arrives afterwards resolves no caller.    *)
(***************************************************************************)
TimedOutCommand(commandId) ==
  \E c \in Callers : calls[c].outcome = "timeout" /\ calls[c].command = commandId

OutcomesKept == \A c \in Callers : calls'[c].outcome = calls[c].outcome

C3_LateResponseResolvesNoCaller ==
  [][(NewFrames = 1 /\ TimedOutCommand(NewFrame(1).command)) =>
       \A c \in Callers : calls'[c].outcome = "resolved" =>
                            calls[c].outcome = "resolved"]_vars

(***************************************************************************)
(* C3, amended.  A pending call keeps its timeout armed until it is        *)
(* completed; when the timeout fires the caller fails with a timeout error *)
(* and has no entry in the pending set; a timed-out caller is never        *)
(* completed again; and a response frame that arrives when no call with    *)
(* its command id is pending resolves no caller and raises no error.       *)
(***************************************************************************)
C3_TimeoutState ==
  \A c \in Callers :
    /\ calls[c].outcome = "timeout" => ~HasEntry(c)
    /\ calls[c].outcome = "pending" <=> HasTimer(c)
    /\ HasEntry(c) => calls[c].outcome = "pending"

C3_TimeoutSteps ==
  /\ \A c \in Callers :
       calls[c].outcome = "timeout" => calls'[c].outcome = "timeout"
  /\ \A c \in Callers :
       (HasTimer(c) /\ ~HasTimer(c)' /\ calls'[c].outcome # "resolved") =>
         (calls'[c].outcome = "timeout" /\ ~HasEntry(c)')
  /\ (NewFrames = 1 /\ Matching(responseQueue, NewFrame(1).command) = {}) =>
       (OutcomesKept /\ handlerErrors' = handlerErrors
        /\ responseQueue' = responseQueue)

C3_TimeoutCleanup == []C3_TimeoutState /\ [][C3_TimeoutSteps]_vars

\* a caller has timed out and a frame with its command id was handed to the
\* dispatcher afterwards, which resolved nobody and raised nothing
C3_Witness ==
  \E c \in Callers :
    /\ calls[c].outcome = "timeout"
    /\ \E k \in (calls[c].at + 1)..Len(emitted) :
         emitted[k].command = calls[c].command
    /\ \A d \in Callers : calls[d].outcome # "resolved"
    /\ handlerErrors = 0

(***************************************************************************)
(* C7.  When the controller is not connected, every send fails at once     *)
(* with a connection error, writes no byte to the transport and registers  *)
(* no pending command.                                                     *)
(***************************************************************************)
IsCallStep == Len(calls') = Len(calls) + 1

NewCall == calls'[Len(calls')]

NothingSent ==
  /\ portWrites' = portWrites
  /\ responseQueue' = responseQueue
  /\ timers' = timers

C7_NotConnectedSendFails ==
  [][(IsCallStep /\ ~isConnected /\ NewCall.outcome # "valerr") =>
       (NewCall.outcome = "connerr" /\ NothingSent)]_vars

\* a read (which would register a pending command) and a move (which would
\* write a frame) were both refused on a disconnected controller
C7_Witness ==
  \E c \in Callers :
    /\ ~calls[c].connected
    /\ calls[c].outcome = "connerr"
    /\ calls[c].op \in {"getAngles", "sendAngles"}
    /\ portWrites = <<>> /\ responseQueue = <<>>

(***************************************************************************)
(* C8.  A call of a public operation whose argument violates its checked   *)
(* range (an id outside 1..6, a speed outside 0..100, a gripper state or   *)
(* an interpolation mode outside {0,1}, a vector whose length is not 6)    *)
(* fails before any byte is written and before any pending command is      *)
(* registered, connected or not.                                           *)
(***************************************************************************)
HasIdArg(op) ==
  op \in {"isServoEnable", "releaseServo", "focusServo", "getEncoder",
          "setEncoder", "sendAngle", "sendCoord"}

SpeedArg(op, args) ==
  CASE op = "setSpeed" -> <<args[1]>>
    [] op \in {"sendAngles", "sendCoords", "setGripperState",
               "setGripperValue"} -> <<args[2]>>
    [] op \in {"sendAngle", "sendCoord"} -> <<args[3]>>
    [] OTHER -> <<>>

OutOfRange(op, args) ==
  \/ HasIdArg(op) /\ args[1] \notin 1..6
  \/ \E i \in 1..Len(SpeedArg(op, args)) : SpeedArg(op, args)[i] \notin 0..100
  \/ op = "setGripperState" /\ args[1] \notin {0, 1}
  \/ op = "sendCoords" /\ args[3] \notin {0, 1}
  \/ op \in {"sendAngles", "sendCoords", "setEncoders"} /\ Len(args[1]) # 6

C8_ValidationBeforeIO ==
  [][(IsCallStep /\ OutOfRange(NewCall.op, NewCall.args)) =>
       (NewCall.outcome = "valerr" /\ NothingSent)]_vars

\* a move with an out-of-range speed was refused on a connected controller
C8_Witness ==
  \E c \in Callers :
    /\ calls[c].connected
    /\ calls[c].op = "sendAngles"
    /\ Len(calls[c].args[1]) = 6 /\ calls[c].args[2] = 101
    /\ calls[c].outcome = "valerr"
    /\ portWrites = <<>>

(***************************************************************************)
(* Properties of the extractor (SpecExtract)                               *)
(***************************************************************************)
TheFrame ==
  [command |-> OpCommand(scenario.op), data |-> scenario.payload]

Delivered == stream = <<>>

\* Feed delivers the whole stream as one chunk
WholeDelivery == stream = ScenarioStream(scenario) /\ stream' = <<>>

(***************************************************************************)
(* C4.  For every command id and payload, when the encoded frame has been  *)
(* fed to the extractor in any sequence of non-empty chunks, starting from *)
(* an empty buffer, exactly one frame has been emitted, it has the command *)
(* id and payload of the input, and the buffer is empty.                   *)
(***************************************************************************)
C4_FragmentedRoundTrip ==
  (scenario.kind = "frame" /\ Delivered) =>
     (emitted = <<TheFrame>> /\ buffer = <<>>)

\* The same, as long as no exception left the 'data' handler.
C4_RoundTripUnlessThrown ==
  /\ (scenario.kind = "frame" /\ ~Delivered) => emitted = <<>>
  /\ (scenario.kind = "frame" /\ Delivered) =>
        /\ emitted = <<TheFrame>>
        /\ handlerErrors = 0 => buffer = <<>>

(***************************************************************************)
(* C5.  As stated: when the buffer holds leading garbage bytes followed by *)
(* a complete valid frame, the extractor emits that frame, whatever the    *)
(* garbage bytes are.                                                      *)
(***************************************************************************)
C5_GarbageThenFrame ==
  [][(scenario.kind = "garbage" /\ WholeDelivery) =>
       emitted' = <<TheFrame>>]_vars

(***************************************************************************)
(* C5, amended.  When the buffer holds leading garbage bytes followed by a *)
(* complete valid frame, and the garbage holds no two consecutive header   *)
(* sentinels and does not end with a header sentinel, the extractor drops  *)
(* the garbage and emits that frame.                                       *)
(***************************************************************************)
CleanGarbage(g) ==
  /\ \A i \in 1..(Len(g) - 1) : ~(g[i] = HEADER /\ g[i + 1] = HEADER)
  /\ g[Len(g)] # HEADER

C5_CleanGarbageThenFrame ==
  [][(scenario.kind = "garbage" /\ WholeDelivery
        /\ CleanGarbage(scenario.garbage)) =>
       /\ emitted' = <<TheFrame>>
       /\ buffer' \in {<<>>, ScenarioFrame(scenario)}
       /\ handlerErrors' = 0 => buffer' = <<>>]_vars

\* garbage with a lone header sentinel in it was dropped and the frame
\* behind it emitted
C5_Witness ==
  /\ scenario.kind = "garbage"
  /\ scenario.garbage = <<HEADER, 0, HEADER, 0>>
  /\ Delivered
  /\ emitted = <<TheFrame>>
  /\ buffer = <<>>

(***************************************************************************)
(* C6.  A complete frame whose last byte is not the footer sentinel is     *)
(* removed from the buffer without being handed to the dispatcher and      *)
(* without raising an error, and the valid frame that follows it in the    *)
(* stream is still emitted.                                                *)
(***************************************************************************)
C6_BadFooterDropped ==
  scenario.kind = "badfooter" =>
    /\ emitted \in {<<>>, <<TheFrame>>}
    /\ handlerErrors > 0 => emitted = <<TheFrame>>
    /\ Delivered =>
         /\ emitted = <<TheFrame>>
         /\ buffer \in {<<>>, ScenarioFrame(scenario)}
         /\ handlerErrors = 0 => buffer = <<>>

\* a bad-footer frame with header sentinels inside was consumed and the
\* frame behind it emitted
C6_Witness ==
  /\ scenario.kind = "badfooter"
  /\ scenario.bad = <<HEADER, HEADER, 2, FOOTER, HEADER>>
  /\ Delivered
  /\ emitted = <<TheFrame>>
  /\ buffer = <<>>
  /\ handlerErrors = 0

(***************************************************************************)
(* SpecCodec: the multi-joint / coordinate move encoding followed by the   *)
(* angle / coordinate vector decoding of its 12 position bytes.  Positions *)
(* are written in thousandths (see MathRound100); the decoder's values are *)
(* in hundredths.                                                          *)
(***************************************************************************)
\* both ends of the signed 16-bit fixed-point range, and one value past it
SampleMilli == {-327680, -10, 0, 327670, 327680}

CodecSpeeds == {0, 100}

\* the read whose response carries the vector a move command sends
ReadOf(commandId) == IF commandId = SEND_ANGLES THEN GET_ANGLES ELSE GET_COORDS

\* sendAngles: [...angles, speed]; sendCoords: [...coords, speed, mode]
MoveData(commandId, vector, speed) ==
  IF commandId = SEND_ANGLES THEN Append(vector, speed)
  ELSE vector \o <<speed, 1>>

InitCodec ==
  /\ CtrlInit /\ FeedInit /\ RecInit
  /\ \E c \in {SEND_ANGLES, SEND_COORDS}, v \in [1..6 -> SampleMilli],
        sp \in CodecSpeeds :
       codec = [phase |-> "input", command |-> c, vector |-> v, speed |-> sp,
                encoded |-> Bytes(<<>>), decoded |-> Decoded(<<>>)]

Encode ==
  /\ codec.phase = "input"
  /\ codec' = [codec EXCEPT
       !.phase = "encoded",
       !.encoded = EncodeData(codec.command,
                              MoveData(codec.command, codec.vector, codec.speed))]
  /\ UNCHANGED <<ctrlVars, feedVars, recVars>>

Decode ==
  /\ codec.phase = "encoded"
  /\ codec.encoded.ok
  /\ codec' = [codec EXCEPT
       !.phase = "decoded",
       !.decoded = DecodeData(ReadOf(codec.command),
                              Take(codec.encoded.bytes, 12))]
  /\ UNCHANGED <<ctrlVars, feedVars, recVars>>

NextCodec == Encode \/ Decode

SpecCodec == InitCodec /\ [][NextCodec]_vars

Abs(x) == IF x < 0 THEN -x ELSE x

\* a multiple of 0.01 within the signed 16-bit fixed-point range
FixedPoint(milli) ==
  milli % 10 = 0 /\ milli >= -327680 /\ milli <= 327670

(***************************************************************************)
(* C10.  For every 6-element position vector of multiples of 0.01 within   *)
(* the signed 16-bit fixed-point range and every speed in 0..100, the move *)
(* encoding succeeds, and decoding its 12 position bytes with the vector   *)
(* decoding rule gives a 6-element vector that differs from the input by   *)
(* less than 0.01 in every component.                                      *)
(***************************************************************************)
C10_EncodeDecodeRoundTrip ==
  (codec.phase # "none" /\ \A i \in 1..6 : FixedPoint(codec.vector[i])) =>
     /\ codec.phase # "input" =>
          /\ codec.encoded.ok
          /\ Len(codec.encoded.bytes) >= 12
     /\ codec.phase = "decoded" =>
          /\ codec.decoded.ok
          /\ Len(codec.decoded.value) = 6
          /\ \A i \in 1..6 :
               Abs(10 * codec.decoded.value[i] - codec.vector[i]) < 10

\* a vector with both ends of the range in it went through the round trip
C10_Witness ==
  /\ codec.phase = "decoded"
  /\ codec.vector = <<-327680, 327670, -10, 0, -10, 0>>
  /\ codec.decoded.ok
  /\ codec.decoded.value = <<-32768, 32767, -1, 0, -1, 0>>

(***************************************************************************)
(* SpecRec: MovementRecorder.  A caller is one invocation of a public      *)
(* method; pc[c].at is the await it is suspended at ("returned", "threw"   *)
(* and "stateError" are final).  A chain is one recordFrame closure made   *)
(* by _startRecordingLoop: "reading" while it awaits the position read,    *)
(* "timer" while its setTimeout is armed.  Every action is the code that   *)
(* runs between two awaits.  The robot's operations complete with either   *)
(* outcome; robotLog is the bag of the operations called on it.                  *)
(***************************************************************************)
MaxRecCalls == 2

MaxFrames == 2

MaxReads == 2

MaxPasses == 1

MaxTime == 1

\* the recording object handed to playRecording
PlayFrames == <<[timestamp |-> 0], [timestamp |-> 100]>>

\* the speed option of playRecording, in percent (0.5x and 2.0x)
PlaySpeeds == {50, 200}

MaxPlayCalls == 3

\* wait is the delay of the caller's latest sleep; stopped records that
\* stopPlayback cleared isPlaying while this playback was in a pass
Caller(op, at) ==
  [op |-> op, at |-> at, i |-> 0, pass |-> 0, loop |-> FALSE,
   speed |-> 100, wait |-> 0, stopped |-> FALSE,
   frameCount |-> 0, duration |-> 0]

\* the number of recorder calls explored: SpecPlay follows one more caller
\* saveRecording: the most calls on the recorder in a save scenario
MaxSaveCalls == 3
\* the most calls on the recorder when one recording is played in each mode
MaxPassCalls == 2
\* the most calls on the recorder when passes repeat without a limit
MaxLoopCalls == 3
\* the most calls on the recorder when each call is awaited
MaxSessionCalls == 3

\* the constructor defaults: options.sampleRate ?? 20, recordingMode 'angles'
SampleRate == 20

RecordingMode == "angles"

\* metadata = {} (the default argument)
NoMetadata == [k \in {} |-> 0]

\* the extra-metadata arguments tried
ExtraMetadata ==
  {NoMetadata, [author |-> "a"], [duration |-> 5], [frameCount |-> 7]}

CallLimit ==
  IF scenario.kind = "playback" THEN MaxPlayCalls
  ELSE IF scenario.kind = "save" THEN MaxSaveCalls
  ELSE IF scenario.kind = "pass" THEN MaxPassCalls
  ELSE IF scenario.kind = "loop" THEN MaxLoopCalls
  ELSE IF scenario.kind = "sessions" THEN MaxSessionCalls
  ELSE MaxRecCalls

\* fault variant: the speed option is ignored
UnscaledDelay(originalDelay, speed) == originalDelay

\* adjustedDelay = originalDelay / speed
AdjustedDelay(originalDelay, speed) == (originalDelay * 100) \div speed

Cmd(command, frame) == [command |-> command, frame |-> frame, args |-> <<>>]

\* In the scenario "loop" a playback may repeat its pass for ever: the passes
\* are not counted and the log keeps one copy of each command, so that the
\* endless repetition is a cycle of finitely many states.
Unbounded == scenario.kind = "loop"

\* the log after the command is sent
Logged(cmd) ==
  IF Unbounded /\ BagIn(cmd, robotLog) THEN robotLog
  ELSE robotLog (+) SetToBag({cmd})

\* the number of the pass after pass number `pass`
NextPass(pass) == IF Unbounded THEN pass ELSE pass + 1

\* the recordingMode values of a recording that is played
PlayModes == {"angles", "coords", "unknown"}

\* the moveSpeed option values tried
MoveSpeeds == {50, 100}

\* recordingData.metadata.recordingMode of the recording that is played
RecordedMode ==
  IF "mode" \in DOMAIN scenario THEN scenario.mode ELSE "angles"

\* const { moveSpeed = 100 } = options
MoveSpeedOption ==
  IF "moveSpeed" \in DOMAIN scenario THEN scenario.moveSpeed ELSE 100

\* fault variant: every recording is played as joint moves
MoveCommandAnglesOnly(mode) == SEND_ANGLES

\* sendCoords for 'coords', sendAngles for 'angles' and for any other mode
MoveCommand(mode) == IF mode = "coords" THEN SEND_COORDS ELSE SEND_ANGLES

\* sendAngles(frame.position, moveSpeed) or
\* sendCoords(frame.position, moveSpeed, 1) for frame i
MoveCmd(mode, i, moveSpeed) ==
  [command |-> MoveCommand(mode), frame |-> i,
   args |-> IF MoveCommand(mode) = SEND_COORDS THEN <<moveSpeed, 1>>
            ELSE <<moveSpeed>>]

\* fault variant of the state guards
NeverRefused == FALSE

\* if (this.isRecording) throw ...; if (this.isPlaying) throw ...
StartRecordingRefused == isRecording \/ isPlaying

PlayRecordingRefused == isRecording \/ isPlaying

\* if (!this.isRecording) throw ...
StopRecordingRefused == ~isRecording

StartRecording ==
  /\ Len(pc) < CallLimit
  /\ IF StartRecordingRefused
     THEN /\ pc' = Append(pc, Caller("startRecording", "stateError"))
          /\ UNCHANGED <<currentRecording, robotLog>>
     ELSE /\ currentRecording' = <<>>
          /\ robotLog' = robotLog (+) SetToBag({Cmd(RELEASE_ALL_SERVOS, 0)})
          /\ pc' = Append(pc, Caller("startRecording", "releaseAllServos"))
  /\ UNCHANGED <<isRecording, isPlaying, recordingStartTime, recordingTimer,
                 now, chains>>
  /\ UNCHANGED <<ctrlVars, feedVars, codec, documents>>

\* after await releaseAllServos(): set the flag, take the start instant and
\* run recordFrame() up to its position read
StartRecordingResume ==
  /\ \E c \in 1..Len(pc) :
       /\ pc[c].op = "startRecording" /\ pc[c].at = "releaseAllServos"
       /\ \E ok \in BOOLEAN :
            IF ok
            THEN /\ isRecording' = TRUE
                 /\ recordingStartTime' = now
                 /\ chains' = Append(chains, [state |-> "reading",
                                              stamp |-> 0, reads |-> 1])
                 /\ robotLog' = robotLog (+) SetToBag({Cmd(GET_ANGLES, 0)})
                 /\ pc' = [pc EXCEPT ![c].at = "returned"]
            ELSE /\ pc' = [pc EXCEPT ![c].at = "threw"]
                 /\ UNCHANGED <<isRecording, recordingStartTime, chains,
                                robotLog>>
  /\ UNCHANGED <<isPlaying, currentRecording, recordingTimer, now>>
  /\ UNCHANGED <<ctrlVars, feedVars, codec, documents>>

\* fault variant: a failed read ends the chain
EndsOnError(ok) == IF ok THEN "timer" ELSE "ended"

\* the try path and the catch path both arm the next tick with setTimeout
AfterRead(ok) == "timer"

\* recordFrame after its position read: push the frame (or log the error)
\* and arm the next tick
SampleRead ==
  /\ \E k \in 1..Len(chains) :
       /\ chains[k].state = "reading"
       /\ \E ok \in BOOLEAN :
            /\ ok => Len(currentRecording) < MaxFrames
            /\ currentRecording' =
                 IF ok THEN Append(currentRecording,
                                   [timestamp |-> chains[k].stamp])
                 ELSE currentRecording
            /\ chains' = [chains EXCEPT ![k].state = AfterRead(ok)]
       /\ recordingTimer' = k
  /\ UNCHANGED <<isRecording, isPlaying, recordingStartTime, now, pc, robotLog>>
  /\ UNCHANGED <<ctrlVars, feedVars, codec, documents>>

\* the setTimeout callback: recordFrame up to its position read
SampleTick ==
  /\ \E k \in 1..Len(chains) :
       /\ chains[k].state = "timer"
       /\ IF ~isRecording
          THEN /\ chains' = [chains EXCEPT ![k].state = "ended"]
               /\ UNCHANGED robotLog
          ELSE /\ chains[k].reads < MaxReads
               /\ chains' = [chains EXCEPT ![k] =
                    [state |-> "reading", stamp |-> now - recordingStartTime,
                     reads |-> @.reads + 1]]
               /\ robotLog' = robotLog (+) SetToBag({Cmd(GET_ANGLES, 0)})
  /\ UNCHANGED <<isRecording, isPlaying, recordingStartTime, currentRecording,
                 recordingTimer, now, pc>>
  /\ UNCHANGED <<ctrlVars, feedVars, codec, documents>>

\* clearTimeout(this.recordingTimer); this.recordingTimer = null
StopRecordingLoop ==
  /\ chains' = IF recordingTimer # 0 /\ chains[recordingTimer].state = "timer"
               THEN [chains EXCEPT ![recordingTimer].state = "cancelled"]
               ELSE chains
  /\ recordingTimer' = 0

StopRecording ==
  /\ Len(pc) < CallLimit
  /\ IF StopRecordingRefused
     THEN /\ pc' = Append(pc, Caller("stopRecording", "stateError"))
          /\ UNCHANGED <<isRecording, recordingTimer, chains, robotLog>>
     ELSE /\ StopRecordingLoop
          /\ isRecording' = FALSE
          /\ robotLog' = robotLog (+) SetToBag({Cmd(POWER_ON, 0)})
          /\ pc' = Append(pc, [Caller("stopRecording", "powerOn") EXCEPT
                                 !.frameCount = Len(currentRecording),
                                 !.duration = now - recordingStartTime])
  /\ UNCHANGED <<isPlaying, recordingStartTime, currentRecording, now>>
  /\ UNCHANGED <<ctrlVars, feedVars, codec, documents>>

StopRecordingResume ==
  /\ \E c \in 1..Len(pc) :
       /\ pc[c].op = "stopRecording" /\ pc[c].at = "powerOn"
       /\ \E ok \in BOOLEAN :
            pc' = [pc EXCEPT ![c].at = IF ok THEN "returned" ELSE "threw"]
  /\ UNCHANGED <<isRecording, isPlaying, recordingStartTime, currentRecording,
                 recordingTimer, now, chains, robotLog>>
  /\ UNCHANGED <<ctrlVars, feedVars, codec, documents>>

PlayRecording ==
  /\ Len(pc) < CallLimit
  /\ \E loop \in BOOLEAN, speed \in PlaySpeeds :
       IF PlayRecordingRefused
       THEN /\ pc' = Append(pc, [Caller("playRecording", "stateError")
                                   EXCEPT !.loop = loop, !.speed = speed])
            /\ UNCHANGED robotLog
       ELSE /\ robotLog' = Logged(Cmd(POWER_ON, 0))
            /\ pc' = Append(pc, [Caller("playRecording", "powerOn")
                                   EXCEPT !.loop = loop, !.speed = speed])
  /\ UNCHANGED <<isRecording, isPlaying, recordingStartTime, currentRecording,
                 recordingTimer, now, chains>>
  /\ UNCHANGED <<ctrlVars, feedVars, codec, documents>>

\* after await powerOn(): start the 1000 ms pause
PlayPowered ==
  /\ \E c \in 1..Len(pc) :
       /\ pc[c].op = "playRecording" /\ pc[c].at = "powerOn"
       /\ \E ok \in BOOLEAN :
            pc' = [pc EXCEPT ![c].at = IF ok THEN "settle" ELSE "threw"]
  /\ UNCHANGED <<isRecording, isPlaying, recordingStartTime, currentRecording,
                 recordingTimer, now, chains, robotLog>>
  /\ UNCHANGED <<ctrlVars, feedVars, codec, documents>>

\* The for loop of _playRecordingOnce at index i (1-based) of pass `pass`,
\* with `playing` the value of isPlaying: the move of frame i, or the end of
\* the pass (the loop pause, or the finally block of playRecording).
PlayStep(c, i, pass, playing) ==
  IF i <= Len(PlayFrames) /\ playing
  THEN /\ pc' = [pc EXCEPT ![c].at = "sendAngles", ![c].i = i,
                           ![c].pass = pass]
       /\ robotLog' = Logged(MoveCmd(RecordedMode, i, MoveSpeedOption))
       /\ isPlaying' = playing
  ELSE IF pc[c].loop /\ playing
  THEN /\ pc' = [pc EXCEPT ![c].at = "loopPause", ![c].i = i,
                           ![c].pass = pass, ![c].wait = 500]
       /\ isPlaying' = playing
       /\ UNCHANGED robotLog
  ELSE /\ pc' = [pc EXCEPT ![c].at = "returned", ![c].i = 0,
                           ![c].pass = 0]
       /\ isPlaying' = FALSE
       /\ UNCHANGED robotLog

\* after the pause: this.isPlaying = true and the first pass begins
PlaySettled ==
  /\ \E c \in 1..Len(pc) :
       /\ pc[c].op = "playRecording" /\ pc[c].at = "settle"
       /\ PlayStep(c, 1, 1, TRUE)
  /\ UNCHANGED <<isRecording, recordingStartTime, currentRecording,
                 recordingTimer, now, chains>>
  /\ UNCHANGED <<ctrlVars, feedVars, codec, documents>>

\* the delay between frame i and the next frame at the given speed
FrameDelay(i, speed) ==
  AdjustedDelay(PlayFrames[i + 1].timestamp - PlayFrames[i].timestamp, speed)

\* after await sendAngles(frame i): the gap to the next frame, the 50 ms
\* pause of the catch block, or straight on after the last frame
PlayMoveDone ==
  /\ \E c \in 1..Len(pc) :
       /\ pc[c].op = "playRecording" /\ pc[c].at = "sendAngles"
       /\ \E ok \in BOOLEAN :
            IF ~ok
            THEN /\ pc' = [pc EXCEPT ![c].at = "errorPause", ![c].wait = 50]
                 /\ UNCHANGED <<isPlaying, robotLog>>
            ELSE IF pc[c].i < Len(PlayFrames)
                    /\ FrameDelay(pc[c].i, pc[c].speed) > 0
            THEN /\ pc' = [pc EXCEPT ![c].at = "gap",
                              ![c].wait = FrameDelay(pc[c].i, pc[c].speed)]
                 /\ UNCHANGED <<isPlaying, robotLog>>
            ELSE PlayStep(c, pc[c].i + 1, pc[c].pass, isPlaying)
  /\ UNCHANGED <<isRecording, recordingStartTime, currentRecording,
                 recordingTimer, now, chains>>
  /\ UNCHANGED <<ctrlVars, feedVars, codec, documents>>

PlaySleepDone ==
  /\ \E c \in 1..Len(pc) :
       /\ pc[c].op = "playRecording" /\ pc[c].at \in {"gap", "errorPause"}
       /\ PlayStep(c, pc[c].i + 1, pc[c].pass, isPlaying)
  /\ UNCHANGED <<isRecording, recordingStartTime, currentRecording,
                 recordingTimer, now, chains>>
  /\ UNCHANGED <<ctrlVars, feedVars, codec, documents>>

\* after the 500 ms pause: while (loop && this.isPlaying)
PlayLoopPaused ==
  /\ \E c \in 1..Len(pc) :
       /\ pc[c].op = "playRecording" /\ pc[c].at = "loopPause"
       /\ IF isPlaying
          THEN /\ Unbounded \/ pc[c].pass < MaxPasses
               /\ PlayStep(c, 1, NextPass(pc[c].pass), TRUE)
          ELSE /\ pc' = [pc EXCEPT ![c].at = "returned", ![c].i = 0,
                                   ![c].pass = 0]
               /\ isPlaying' = FALSE
               /\ UNCHANGED robotLog
  /\ UNCHANGED <<isRecording, recordingStartTime, currentRecording,
                 recordingTimer, now, chains>>
  /\ UNCHANGED <<ctrlVars, feedVars, codec, documents>>

\* a playRecording invocation between this.isPlaying = true and its finally
InPass(caller) ==
  /\ caller.op = "playRecording"
  /\ caller.at \in {"sendAngles", "gap", "errorPause", "loopPause"}

StopPlayback ==
  /\ Len(pc) < CallLimit
  /\ IF ~isPlaying
     THEN /\ pc' = Append(pc, Caller("stopPlayback", "returned"))
          /\ UNCHANGED isPlaying
     ELSE /\ isPlaying' = FALSE
          /\ pc' = Append([c \in 1..Len(pc) |->
                             IF InPass(pc[c])
                             THEN [pc[c] EXCEPT !.stopped = TRUE]
                             ELSE pc[c]],
                          [Caller("stopPlayback", "stopWait")
                             EXCEPT !.wait = 100])
  /\ UNCHANGED <<isRecording, recordingStartTime, currentRecording,
                 recordingTimer, now, chains, robotLog>>
  /\ UNCHANGED <<ctrlVars, feedVars, codec, documents>>

StopWaitDone ==
  /\ \E c \in 1..Len(pc) :
       /\ pc[c].op = "stopPlayback" /\ pc[c].at = "stopWait"
       /\ pc' = [pc EXCEPT ![c].at = "returned"]
  /\ UNCHANGED <<isRecording, isPlaying, recordingStartTime, currentRecording,
                 recordingTimer, now, chains, robotLog>>
  /\ UNCHANGED <<ctrlVars, feedVars, codec, documents>>

ClearRecording ==
  /\ Len(pc) < CallLimit
  /\ IF isRecording
     THEN /\ pc' = Append(pc, Caller("clearRecording", "stateError"))
          /\ UNCHANGED currentRecording
     ELSE /\ currentRecording' = <<>>
          /\ pc' = Append(pc, Caller("clearRecording", "returned"))
  /\ UNCHANGED <<isRecording, isPlaying, recordingStartTime, recordingTimer,
                 now, chains, robotLog>>
  /\ UNCHANGED <<ctrlVars, feedVars, codec, documents>>

\* { ...base, ...extra }: the keys of both, extra winning on a shared key
Spread(base, extra) ==
  [k \in DOMAIN base \cup DOMAIN extra |->
     IF k \in DOMAIN extra THEN extra[k] ELSE base[k]]

\* frames[frames.length - 1]?.timestamp ?? 0
LastTimestamp(frames) ==
  IF frames = <<>> THEN 0 ELSE frames[Len(frames)].timestamp

\* the recordingData object built by saveRecording
RecordingData(frames, extra) ==
  [metadata |-> Spread([recordedAt |-> now,
                        duration |-> LastTimestamp(frames),
                        frameCount |-> Len(frames),
                        sampleRate |-> SampleRate,
                        recordingMode |-> RecordingMode], extra),
   frames |-> frames]

\* saveRecording up to await fs.writeFile(filename, JSON.stringify(...))
SaveRecording ==
  /\ Len(pc) < CallLimit
  /\ \E extra \in ExtraMetadata :
       IF currentRecording = <<>>
       THEN /\ pc' = Append(pc, Caller("saveRecording", "threw"))
            /\ UNCHANGED documents
       ELSE /\ documents' =
                 documents \cup {RecordingData(currentRecording, extra)}
            /\ pc' = Append(pc, Caller("saveRecording", "writeFile"))
  /\ UNCHANGED <<isRecording, isPlaying, recordingStartTime, currentRecording,
                 recordingTimer, now, chains, robotLog>>
  /\ UNCHANGED <<ctrlVars, feedVars, codec>>

\* after await fs.writeFile: return, or throw 'Failed to save recording'
SaveRecordingResume ==
  /\ \E c \in 1..Len(pc) :
       /\ pc[c].op = "saveRecording" /\ pc[c].at = "writeFile"
       /\ \E ok \in BOOLEAN :
            pc' = [pc EXCEPT ![c].at = IF ok THEN "returned" ELSE "threw"]
  /\ UNCHANGED <<isRecording, isPlaying, recordingStartTime, currentRecording,
                 recordingTimer, now, chains, robotLog, documents>>
  /\ UNCHANGED <<ctrlVars, feedVars, codec>>

\* performance.now() advances.  The code reads the clock only as a
\* difference to recordingStartTime, so it is advanced only while a
\* recording is in progress.
Tick ==
  /\ isRecording
  /\ now < MaxTime
  /\ now' = now + 1
  /\ UNCHANGED <<isRecording, isPlaying, recordingStartTime, currentRecording,
                 recordingTimer, pc, chains, robotLog>>
  /\ UNCHANGED <<ctrlVars, feedVars, codec, documents>>

InitRec == CtrlInit /\ FeedInit /\ CodecInit /\ RecInit

NextRec ==
  \/ StartRecording \/ StartRecordingResume \/ SampleRead \/ SampleTick
  \/ StopRecording \/ StopRecordingResume
  \/ PlayRecording \/ PlayPowered \/ PlaySettled \/ PlayMoveDone
  \/ PlaySleepDone \/ PlayLoopPaused
  \/ StopPlayback \/ StopWaitDone \/ ClearRecording \/ Tick

SpecRec == InitRec /\ [][NextRec]_vars

(***************************************************************************)
(* SpecPlay: the playback methods alone, with MaxPlayCalls callers.  The   *)
(* playback code reads and writes isPlaying only (isRecording is read by   *)
(* the guard of playRecording), so the recording methods add nothing to    *)
(* what a playback does.                                                   *)
(***************************************************************************)
InitPlay ==
  /\ CtrlInit /\ CodecInit /\ RecInit
  /\ stream = <<>>
  /\ fed = 0
  /\ scenario = [kind |-> "playback"]

NextPlay ==
  \/ PlayRecording \/ PlayPowered \/ PlaySettled \/ PlayMoveDone
  \/ PlaySleepDone \/ PlayLoopPaused \/ StopPlayback \/ StopWaitDone

SpecPlay == InitPlay /\ [][NextPlay]_vars

\* playback of a recording of each mode with each moveSpeed option
InitPass ==
  /\ CtrlInit /\ CodecInit /\ RecInit
  /\ stream = <<>>
  /\ fed = 0
  /\ \E mode \in PlayModes, moveSpeed \in MoveSpeeds :
       scenario = [kind |-> "pass", mode |-> mode, moveSpeed |-> moveSpeed]

SpecPass == InitPass /\ [][NextPlay]_vars

\* every invocation on the recorder has returned or thrown
AllAwaited ==
  \A c \in 1..Len(pc) : pc[c].at \in {"returned", "threw", "stateError"}

\* Recording sessions one after the other: the caller awaits each
\* startRecording and stopRecording before it makes the next call.
InitSessions ==
  /\ CtrlInit /\ CodecInit /\ RecInit
  /\ stream = <<>>
  /\ fed = 0
  /\ scenario = [kind |-> "sessions"]

NextSessions ==
  \/ AllAwaited /\ StartRecording
  \/ StartRecordingResume \/ SampleRead \/ SampleTick
  \/ AllAwaited /\ StopRecording
  \/ StopRecordingResume \/ Tick

SpecSessions == InitSessions /\ [][NextSessions]_vars

\* Playback with passes that repeat without a limit.  Every await of a
\* playRecording or stopPlayback invocation completes: the pauses are timers
\* and a command is resolved or rejected by its timeout.
InitLoop ==
  /\ CtrlInit /\ CodecInit /\ RecInit
  /\ stream = <<>>
  /\ fed = 0
  /\ scenario = [kind |-> "loop"]

\* invocation c continues after the await it is suspended at
Resumes(c) ==
  /\ c <= Len(pc)
  /\ \/ PlayPowered \/ PlaySettled \/ PlayMoveDone
     \/ PlaySleepDone \/ PlayLoopPaused \/ StopWaitDone
  /\ pc'[c] # pc[c]

SpecLoop ==
  /\ InitLoop /\ [][NextPlay]_vars
  /\ \A c \in 1..MaxLoopCalls : WF_vars(Resumes(c))

(***************************************************************************)
(* Timed recording: one recording session in which the clock is advanced   *)
(* to the instant of each event, every position read taking the latency of *)
(* the scenario and every tick being armed recordingInterval ahead.        *)
(***************************************************************************)
\* the instant at which the session is stopped at the latest, in ms
StopAfter == 1000

\* this.recordingInterval = 1000 / this.sampleRate
RecordingInterval == 1000 \div SampleRate

\* the position-read latencies tried, in ms
ReadLatencies == {0, 5, 10, 25, 40}

\* the instant at which the read or the timer of chain k completes: a read
\* begun at recordingStartTime + stamp takes the latency, and the timer is
\* armed when the read has completed
DueTime(k) ==
  recordingStartTime + chains[k].stamp + scenario.latency
    + (IF chains[k].state = "timer" THEN RecordingInterval ELSE 0)

TimedStart == pc = <<>> /\ StartRecording

\* recordFrame after its position read: push the frame, arm the next tick
TimedRead ==
  /\ \E k \in 1..Len(chains) :
       /\ chains[k].state = "reading"
       /\ DueTime(k) <= StopAfter
       /\ now' = DueTime(k)
       /\ currentRecording' =
            Append(currentRecording, [timestamp |-> chains[k].stamp])
       /\ chains' = [chains EXCEPT ![k].state = AfterRead(TRUE)]
       /\ recordingTimer' = k
  /\ UNCHANGED <<isRecording, isPlaying, recordingStartTime, pc, robotLog,
                 documents>>
  /\ UNCHANGED <<ctrlVars, feedVars, codec>>

\* the setTimeout callback: recordFrame up to its position read
TimedTick ==
  /\ \E k \in 1..Len(chains) :
       /\ chains[k].state = "timer"
       /\ DueTime(k) <= StopAfter
       /\ now' = DueTime(k)
       /\ IF ~isRecording
          THEN /\ chains' = [chains EXCEPT ![k].state = "ended"]
               /\ UNCHANGED robotLog
          ELSE /\ chains' = [chains EXCEPT ![k] =
                    [state |-> "reading",
                     stamp |-> DueTime(k) - recordingStartTime,
                     reads |-> @.reads + 1]]
               /\ robotLog' = robotLog (+) SetToBag({Cmd(GET_ANGLES, 0)})
  /\ UNCHANGED <<isRecording, isPlaying, recordingStartTime, currentRecording,
                 recordingTimer, pc, documents>>
  /\ UNCHANGED <<ctrlVars, feedVars, codec>>

\* nothing is due before StopAfter: the clock reaches StopAfter
TimedWait ==
  /\ isRecording
  /\ now < StopAfter
  /\ \A k \in 1..Len(chains) :
       chains[k].state \in {"reading", "timer"} => DueTime(k) > StopAfter
  /\ now' = StopAfter
  /\ UNCHANGED <<isRecording, isPlaying, recordingStartTime, currentRecording,
                 recordingTimer, pc, chains, robotLog, documents>>
  /\ UNCHANGED <<ctrlVars, feedVars, codec>>

TimedStop == isRecording /\ StopRecording

InitTimed ==
  /\ CtrlInit /\ CodecInit /\ RecInit
  /\ stream = <<>>
  /\ fed = 0
  /\ \E latency \in ReadLatencies :
       scenario = [kind |-> "timed", latency |-> latency]

NextTimed ==
  \/ TimedStart \/ StartRecordingResume \/ TimedRead \/ TimedTick
  \/ TimedWait \/ TimedStop \/ StopRecordingResume

SpecTimed == InitTimed /\ [][NextTimed]_vars

(***************************************************************************)
(* Recording and saving: one recorder that records and whose accumulator   *)
(* is saved with saveRecording.                                            *)
(***************************************************************************)
InitSave ==
  /\ CtrlInit /\ CodecInit /\ RecInit
  /\ stream = <<>>
  /\ fed = 0
  /\ scenario = [kind |-> "save"]

NextSave ==
  \/ StartRecording \/ StartRecordingResume \/ SampleRead \/ SampleTick
  \/ Tick \/ SaveRecording \/ SaveRecordingResume

SpecSave == InitSave /\ [][NextSave]_vars

(***************************************************************************)
(* Properties of the recorder (SpecRec)                                    *)
(***************************************************************************)
\* chains that sample while the recorder is in the Recording state
SamplingLoops ==
  IF isRecording
  THEN {k \in 1..Len(chains) : chains[k].state \in {"reading", "timer"}}
  ELSE {}

\* playRecording invocations inside a pass of _playRecordingOnce
PlaybackPasses ==
  {c \in 1..Len(pc) :
     /\ pc[c].op = "playRecording"
     /\ pc[c].at \in {"sendAngles", "gap", "errorPause"}}

(***************************************************************************)
(* C1.  Under every interleaving of startRecording, stopRecording,         *)
(* playRecording and stopPlayback calls by concurrent callers, there is    *)
(* never a moment at which two sampling loops, two playback passes, or a   *)
(* sampling loop and a playback pass are active together.                  *)
(***************************************************************************)
C1_NeverTwoActivities ==
  Cardinality(SamplingLoops) + Cardinality(PlaybackPasses) <= 1

\* a call of op is the step that adds a caller of op
RecCall(op) == Len(pc') = Len(pc) + 1 /\ pc'[Len(pc')].op = op

IllegalCall ==
  \/ RecCall("startRecording") /\ (isRecording \/ isPlaying)
  \/ RecCall("playRecording") /\ (isRecording \/ isPlaying)
  \/ RecCall("stopRecording") /\ ~isRecording

(***************************************************************************)
(* C9.  startRecording or playRecording called while recording or playing, *)
(* and stopRecording called while not recording, fail with a state error,  *)
(* issue no command to the robot and leave isRecording, isPlaying and the  *)
(* frame accumulator (and the sampling chains and timer) unchanged.        *)
(***************************************************************************)
C9_IllegalOperationRefused ==
  [][IllegalCall =>
       /\ pc'[Len(pc')].at = "stateError"
       /\ robotLog' = robotLog
       /\ isRecording' = isRecording
       /\ isPlaying' = isPlaying
       /\ currentRecording' = currentRecording
       /\ chains' = chains
       /\ recordingTimer' = recordingTimer]_vars

\* startRecording was refused during a recording that holds frames
C9_Witness ==
  /\ isRecording
  /\ currentRecording # <<>>
  /\ \E c \in 1..Len(pc) :
       pc[c].op = "startRecording" /\ pc[c].at = "stateError"

(***************************************************************************)
(* Properties of the dispatcher: completion of the pending calls (Spec)    *)
(***************************************************************************)
Completed(c) == calls[c].outcome \in {"resolved", "timeout"}

EntriesOf(c) == {i \in 1..Len(responseQueue) : responseQueue[i].call = c}

\* a caller has at most one entry, and none once it is completed
C11_State ==
  \A c \in Callers :
    /\ Cardinality(EntriesOf(c)) <= 1
    /\ Completed(c) => EntriesOf(c) = {}

\* a completion is final, one step completes a caller by one frame only,
\* and an entry that has left the pending set does not come back
C11_Steps ==
  \A c \in Callers :
    /\ Completed(c) => /\ calls'[c].outcome = calls[c].outcome
                       /\ calls'[c].value = calls[c].value
    /\ (calls[c].outcome = "pending" /\ EntriesOf(c) = {}) => ~HasEntry(c)'
    /\ (~Completed(c) /\ Completed(c)') => ~HasTimer(c)'

(***************************************************************************)
(* C11.  Every call that expects a response is completed at most once: no  *)
(* caller is both resolved and failed with a timeout, no caller is         *)
(* resolved by two responses, and a caller's pending entry is removed once *)
(* and never present after the completion, under every interleaving of     *)
(* responses, timeouts and connection loss.                                *)
(***************************************************************************)
C11_CompletedAtMostOnce == []C11_State /\ [][C11_Steps]_vars

\* a caller was resolved, and a second response with its command id arrived
\* afterwards while the connection was lost in between or later
C11_Witness ==
  \E c \in Callers :
    /\ calls[c].outcome = "resolved"
    /\ \E k \in (calls[c].at + 1)..Len(emitted) :
         emitted[k].command = calls[c].command
    /\ \E d \in Callers : d # c /\ calls[d].outcome = "timeout"

(***************************************************************************)
(* C12.  Every call that expects a response eventually completes           *)
(* (resolved or failed) and its entry eventually leaves the pending set,   *)
(* whatever the device sends and even if the connection is closed while    *)
(* the call is pending; the pending set eventually stays empty.            *)
(***************************************************************************)
C12_EveryCallCompletes ==
  /\ \A c \in 1..MaxCalls :
       (c <= Len(calls) /\ calls[c].outcome = "pending")
         ~> (c <= Len(calls) /\ Completed(c) /\ ~HasEntry(c))
  /\ <>[](responseQueue = <<>>)

\* a call was pending when the port closed, and it has completed
C12_Witness ==
  /\ ~portOpen
  /\ \E c \in Callers :
       /\ calls[c].connected
       /\ calls[c].outcome = "timeout"
       /\ \A d \in Callers : d > c => ~calls[d].connected
  /\ responseQueue = <<>>

\* the transport's close or error handler has run in this step
ConnectionLost == isConnected /\ ~isConnected'

(***************************************************************************)
(* C13.  When the transport reports a close or error event while commands  *)
(* are pending, every pending entry is removed and its caller fails at     *)
(* that point, without waiting for the entry's timeout.                    *)
(***************************************************************************)
C13_ConnectionLossFailsPending ==
  [][ConnectionLost =>
       /\ responseQueue' = <<>>
       /\ \A c \in Callers : calls'[c].outcome # "pending"]_vars

\* the call whose timeout handler runs in this step
TimeoutOf(c) == calls[c].outcome = "pending" /\ calls'[c].outcome = "timeout"

\* the pending set without the entry of caller c
WithoutEntryOf(c) ==
  SelectSeq(responseQueue, LAMBDA e : e.call # c)

(***************************************************************************)
(* C14.  The timeout of one pending command fails only that command's      *)
(* caller: every other pending entry, with the same or a different command *)
(* id, stays in the pending set unchanged, and the connection state and    *)
(* the receive buffer are unchanged.                                       *)
(***************************************************************************)
C14_TimeoutFailsOnlyItsCaller ==
  [][\A c \in Callers :
       TimeoutOf(c) =>
         /\ responseQueue' = WithoutEntryOf(c)
         /\ \A d \in Callers \ {c} : calls'[d] = calls[d]
         /\ isConnected' = isConnected
         /\ buffer' = buffer]_vars

\* The same, for a timeout that fires while its caller's entry is pending.
C14_TimeoutWithOwnEntry ==
  [][\A c \in Callers :
       (TimeoutOf(c) /\ HasEntry(c)) =>
         /\ responseQueue' = WithoutEntryOf(c)
         /\ \A d \in Callers \ {c} : calls'[d] = calls[d]
         /\ isConnected' = isConnected
         /\ buffer' = buffer]_vars

(***************************************************************************)
(* Properties of the playback (SpecPlay)                                   *)
(***************************************************************************)
Players == {c \in 1..Len(pc) : pc[c].op = "playRecording"}

\* the await of caller c has completed in this step
Resumed(c, at) == pc[c].at = at /\ pc'[c].at # at

SentMove(i) ==
  robotLog' = robotLog (+) SetToBag({MoveCmd(RecordedMode, i, MoveSpeedOption)})

(***************************************************************************)
(* C15.  After the move command of a frame that is not the last one has    *)
(* completed without error, the player sleeps for                          *)
(* (next.timestamp - current.timestamp) / speed before the next move (50   *)
(* ms for a 100 ms gap at speed 2.0, 200 ms at speed 0.5); after the last  *)
(* frame of a pass it does not sleep.                                      *)
(***************************************************************************)
C15_GapScaledBySpeed ==
  [][\A c \in Players :
       (Resumed(c, "sendAngles") /\ pc'[c].at # "errorPause") =>
         IF pc[c].i < Len(PlayFrames)
         THEN /\ pc'[c].at = "gap"
              /\ pc'[c].wait * pc[c].speed =
                   100 * (PlayFrames[pc[c].i + 1].timestamp
                            - PlayFrames[pc[c].i].timestamp)
              /\ robotLog' = robotLog
         ELSE pc'[c].at \in {"loopPause", "returned"}]_vars

\* both speeds are sleeping between frame 1 and frame 2
C15_Witness ==
  /\ \E c \in Players :
       pc[c].at = "gap" /\ pc[c].i = 1 /\ pc[c].speed = 200 /\ pc[c].wait = 50
  /\ \E c \in Players :
       pc[c].at = "gap" /\ pc[c].i = 1 /\ pc[c].speed = 50 /\ pc[c].wait = 200

(***************************************************************************)
(* C16.  If the move command of frame i fails, playback is not aborted:    *)
(* the failure does not stop the playback, after the pause the move of     *)
(* frame i+1 is issued provided stopPlayback has not stopped the playback  *)
(* (and so on, in order), playRecording does not fail once it is in a      *)
(* pass, and when it returns the playback state is Idle.                   *)
(***************************************************************************)
C16_MoveErrorDoesNotAbort ==
  [][\A c \in Players :
       /\ (Resumed(c, "sendAngles") /\ pc'[c].at = "errorPause") =>
            (isPlaying' = isPlaying /\ pc'[c].i = pc[c].i)
       /\ (Resumed(c, "errorPause") /\ ~pc[c].stopped
             /\ pc[c].i < Len(PlayFrames)) =>
            /\ pc'[c].at = "sendAngles"
            /\ pc'[c].i = pc[c].i + 1
            /\ SentMove(pc[c].i + 1)
       /\ InPass(pc[c]) => pc'[c].at # "threw"
       /\ (pc[c].at # "returned" /\ pc'[c].at = "returned") => ~isPlaying'
    ]_vars

\* The same, read on the flag: the next move is issued whenever isPlaying
\* is still set at the end of the pause.
C16_ContinuesWhileFlagSet ==
  [][\A c \in Players :
       /\ (Resumed(c, "sendAngles") /\ pc'[c].at = "errorPause") =>
            (isPlaying' = isPlaying /\ pc'[c].i = pc[c].i)
       /\ Resumed(c, "errorPause") =>
            IF isPlaying /\ pc[c].i < Len(PlayFrames)
            THEN /\ pc'[c].at = "sendAngles"
                 /\ pc'[c].i = pc[c].i + 1
                 /\ SentMove(pc[c].i + 1)
            ELSE pc'[c].at \in {"loopPause", "returned"}
       /\ InPass(pc[c]) => pc'[c].at # "threw"
       /\ (pc[c].at # "returned" /\ pc'[c].at = "returned") => ~isPlaying'
    ]_vars

(***************************************************************************)
(* C17.  When stopPlayback is called while a playback is Playing, the move *)
(* or sleep in flight is not interrupted, and that playback issues no move *)
(* command for a later frame after the current frame boundary and starts   *)
(* no further loop pass.                                                   *)
(***************************************************************************)
C17_StopTakesEffectAtBoundary ==
  [][\A c \in Players :
       /\ (~pc[c].stopped /\ pc'[c].stopped) =>
            (pc'[c].at = pc[c].at /\ robotLog' = robotLog)
       /\ pc[c].stopped =>
            (pc'[c].at = "sendAngles" =>
               (pc[c].at = "sendAngles" /\ pc'[c].i = pc[c].i
                /\ pc'[c].pass = pc[c].pass))]_vars

(***************************************************************************)
(* Properties of the recording (SpecRec)                                   *)
(***************************************************************************)
Timestamps == [i \in 1..Len(currentRecording) |-> currentRecording[i].timestamp]

(***************************************************************************)
(* C18.  Whatever the outcome and latency of the position reads, the       *)
(* frames in the accumulator have non-decreasing timestamps in append      *)
(* order and the first frame in the accumulator has timestamp 0.           *)
(***************************************************************************)
C18_TimestampsFromZero ==
  /\ \A i \in 1..(Len(Timestamps) - 1) : Timestamps[i] <= Timestamps[i + 1]
  /\ Timestamps # <<>> => Timestamps[1] = 0

\* The ordering alone, within one sampling loop.
C18_NonDecreasing ==
  Cardinality(SamplingLoops) <= 1 =>
    \A i \in 1..(Len(Timestamps) - 1) : Timestamps[i] <= Timestamps[i + 1]

\* a stopRecording call that passed its guard computes its summary
StopComputed ==
  /\ Len(pc') = Len(pc) + 1
  /\ pc'[Len(pc')].op = "stopRecording"
  /\ pc'[Len(pc')].at = "powerOn"

(***************************************************************************)
(* C19.  The summary of stopRecording has a duration equal to the          *)
(* timestamp of the last frame in the accumulator and a frameCount equal   *)
(* to the number of frames in the accumulator.                             *)
(***************************************************************************)
C19_SummaryMatchesFrames ==
  [][(StopComputed /\ Timestamps # <<>>) =>
       /\ pc'[Len(pc')].duration = Timestamps[Len(Timestamps)]
       /\ pc'[Len(pc')].frameCount = Len(Timestamps)]_vars

\* What the summary holds: the time elapsed since the start instant and the
\* number of frames at the moment of the call.
C19_SummaryIsElapsedTime ==
  [][StopComputed =>
       /\ pc'[Len(pc')].duration = now - recordingStartTime
       /\ pc'[Len(pc')].frameCount = Len(Timestamps)
       /\ currentRecording' = currentRecording]_vars

(***************************************************************************)
(* Properties of saveRecording (SpecSave)                                  *)
(***************************************************************************)

(***************************************************************************)
(* C20.  Every recording document produced by saveRecording, for any       *)
(* extra-metadata argument, has metadata.duration equal to the timestamp   *)
(* of the last element of frames and metadata.frameCount equal to          *)
(* frames.length.                                                          *)
(***************************************************************************)
C20_MetadataMatchesFrames ==
  \A d \in documents :
    /\ d.metadata.duration = d.frames[Len(d.frames)].timestamp
    /\ d.metadata.frameCount = Len(d.frames)

\* What the documents hold: the values computed from the frames unless the
\* argument supplies the key.
C20_MetadataFromFramesOrArgument ==
  \A d \in documents :
    /\ d.frames # <<>>
    /\ \/ d.metadata.duration = d.frames[Len(d.frames)].timestamp
       \/ \E e \in ExtraMetadata :
            "duration" \in DOMAIN e /\ d.metadata.duration = e.duration
    /\ \/ d.metadata.frameCount = Len(d.frames)
       \/ \E e \in ExtraMetadata :
            "frameCount" \in DOMAIN e /\ d.metadata.frameCount = e.frameCount

(***************************************************************************)
(* Properties of the sampling loop (SpecRec)                               *)
(***************************************************************************)
\* the position read of chain k has failed in this step
ReadFailed(k) ==
  /\ chains[k].state = "reading"
  /\ chains'[k].state # "reading"
  /\ currentRecording' = currentRecording

(***************************************************************************)
(* C21.  While the recorder is Recording, a position read that fails does  *)
(* not end the sampling loop and does not change the state to Idle: the    *)
(* next tick is scheduled, and a scheduled tick is given up only by        *)
(* stopRecording (cancelled, or found Idle when it fires); otherwise it    *)
(* becomes the next position read.                                         *)
(***************************************************************************)
C21_ReadErrorKeepsSampling ==
  [][\A k \in 1..Len(chains) :
       /\ (isRecording /\ ReadFailed(k)) =>
            /\ isRecording'
            /\ chains'[k].state = "timer"
            /\ chains'[k].reads = chains[k].reads
       /\ (chains[k].state = "timer" /\ chains'[k].state # "timer") =>
            \/ chains'[k].state = "reading" /\ isRecording /\ isRecording'
                 /\ chains'[k].reads = chains[k].reads + 1
            \/ chains'[k].state = "cancelled" /\ RecCall("stopRecording")
            \/ chains'[k].state = "ended" /\ ~isRecording
    ]_vars

\* the first read failed and the second read of the same loop is under way
C21_Witness ==
  /\ isRecording
  /\ currentRecording = <<>>
  /\ \E k \in 1..Len(chains) :
       chains[k].state = "reading" /\ chains[k].reads = 2

(***************************************************************************)
(* C22.  While the recorder is Idle (after stopRecording) the accumulator  *)
(* is modified only by startRecording or clearRecording: no frame is       *)
(* appended, also when a sampling tick was awaiting its position read at   *)
(* the moment stopRecording was called.                                    *)
(***************************************************************************)
C22_FrozenAfterStop ==
  [][~isRecording =>
       \/ currentRecording' = currentRecording
       \/ RecCall("startRecording")
       \/ RecCall("clearRecording")]_vars

\* What stopRecording does stop: a tick that had not begun its read.
C22_NoNewReadAfterStop ==
  [][~isRecording =>
       \A k \in 1..Len(chains) :
         chains'[k].state = "reading" => chains[k].state = "reading"]_vars

(***************************************************************************)
(* Properties of the constructor options (SpecCtor)                        *)
(***************************************************************************)
\* the timeout option as the claim reads it: the option, 2000 when absent
DocumentedTimeout(options) ==
  IF "timeout" \in DOMAIN options THEN options.timeout ELSE 2000

(***************************************************************************)
(* C23.  The response timeout applied to a command that awaits a response  *)
(* is the value of the controller's timeout constructor option, and it is  *)
(* 2000 ms when the option is not given.                                   *)
(***************************************************************************)
C23_TimeoutIsTheOption ==
  \A i \in 1..Len(timers) : timers[i].ms = DocumentedTimeout(scenario.options)

\* What is applied: the per-command value of _getCommandTimeout, whatever
\* the option; the option (500 when absent) is only stored.
C23_TimeoutIsPerCommand ==
  /\ \A i \in 1..Len(timers) :
       timers[i].ms = GetCommandTimeout(timers[i].command)
  /\ timeout = OptionTimeout(scenario.options)

(***************************************************************************)
(* Properties of the transport writes (Spec)                               *)
(***************************************************************************)
\* the calls that got past the guards and the encoder, in the order issued
SuccessfulSends ==
  SelectSeq(calls, LAMBDA c : c.outcome \notin {"valerr", "connerr", "encerr"})

\* one complete frame of the call: header pair, length byte, command id,
\* the encoded arguments, footer
WholeFrameOf(bytes, call) ==
  LET enc == EncodeData(call.command, OpData(call.op, call.args))
  IN  /\ enc.ok
      /\ Len(bytes) = Len(enc.bytes) + 5
      /\ bytes[1] = HEADER /\ bytes[2] = HEADER
      /\ bytes[3] = Len(bytes) - 3
      /\ bytes[4] = call.command
      /\ \A i \in 1..Len(enc.bytes) : bytes[4 + i] = enc.bytes[i]
      /\ bytes[Len(bytes)] = FOOTER

(***************************************************************************)
(* C24.  When several callers issue commands concurrently, each successful *)
(* send performs exactly one transport write that holds one complete       *)
(* frame: the writes seen by the transport are the whole frames of the     *)
(* successful sends in the order the sends were issued, and a failed send  *)
(* writes nothing.                                                         *)
(***************************************************************************)
C24_WritesAreWholeFrames ==
  /\ Len(portWrites) = Len(SuccessfulSends)
  /\ \A i \in 1..Len(portWrites) : WholeFrameOf(portWrites[i], SuccessfulSends[i])

\* two different commands were sent while the first one was still pending
C24_Witness ==
  /\ Len(portWrites) = 2
  /\ portWrites[1] # portWrites[2]
  /\ Len(calls) = 2
  /\ calls[1].outcome = "pending" /\ calls[2].outcome \in {"pending", "sent"}

(***************************************************************************)
(* Properties of the connection state (Spec)                               *)
(***************************************************************************)
\* the transport's events, as they show in the state
OpenEvent == ~portOpen /\ portOpen'

CloseEvent == portOpen /\ ~portOpen'

ErrorEvent ==
  /\ UNCHANGED <<portOpen, buffer, responseQueue, timers, calls, portWrites,
                 emitted, handlerErrors, timeout>>

(***************************************************************************)
(* C25.  The connection state changes only through the transport's open    *)
(* event (to Connected) and its close or error events (to Disconnected);   *)
(* while it is Disconnected every send fails with a connection error, so   *)
(* after a close or error event sends fail until the transport is opened   *)
(* again; receiving data, sending commands and timing out never change     *)
(* the connection state.                                                   *)
(***************************************************************************)
C25_ConnectionStateByEventsOnly ==
  [][/\ (~isConnected /\ isConnected') => OpenEvent
     /\ (isConnected /\ ~isConnected') => (CloseEvent \/ ErrorEvent)
     /\ OpenEvent => isConnected'
     /\ CloseEvent => ~isConnected'
     /\ (IsCallStep /\ ~isConnected) =>
          (NewCall.outcome = "connerr" /\ NothingSent)
     /\ (IsCallStep \/ emitted' # emitted \/ buffer' # buffer
           \/ timers' # timers) => isConnected' = isConnected
    ]_vars

\* a connected call, then a loss of the connection, then a refused call
C25_Witness ==
  /\ Len(calls) = 2
  /\ calls[1].connected /\ calls[1].outcome \in {"pending", "timeout"}
  /\ ~calls[2].connected /\ calls[2].outcome = "connerr"
  /\ ~isConnected

(***************************************************************************)
(* Properties of the sampling rate (SpecTimed)                             *)
(***************************************************************************)
\* the summaries of the stopRecording calls made StopAfter ms after the start
SummariesAtStopAfter ==
  {c \in 1..Len(pc) : /\ pc[c].op = "stopRecording"
                      /\ pc[c].at # "stateError"
                      /\ pc[c].duration = StopAfter}

(***************************************************************************)
(* C26.  A recording at the 20 Hz sample rate that is stopped 1000 ms      *)
(* after its start holds 20 frames within a jitter of two frames, for      *)
(* every position-read latency shorter than the 50 ms sampling interval.   *)
(***************************************************************************)
C26_TwentyFramesInOneSecond ==
  \A c \in SummariesAtStopAfter :
    /\ pc[c].frameCount >= SampleRate - 2
    /\ pc[c].frameCount <= SampleRate + 2

\* What the loop does: each tick is armed when the read has completed, so
\* the frames are one interval plus one read latency apart.
C26_PeriodIsIntervalPlusLatency ==
  \A i \in 1..Len(Timestamps) :
    Timestamps[i] = (i - 1) * (RecordingInterval + scenario.latency)

(***************************************************************************)
(* Properties of the sends that expect no response (Spec)                  *)
(***************************************************************************)
\* no entry is pending for the command id of any frame handed over in
\* this step
NoneAwaited ==
  \A k \in 1..NewFrames : Matching(responseQueue, NewFrame(k).command) = {}

(***************************************************************************)
(* C27.  A send that expects no response completes as soon as its frame    *)
(* is written, registers no pending command and starts no timeout, and     *)
(* stays completed; a response frame that arrives for a command id with    *)
(* no pending call resolves nothing and leaves the pending set and the     *)
(* timeouts unchanged.                                                     *)
(***************************************************************************)
C27_NoResponseSendCompletesAtOnce ==
  [][/\ (IsCallStep /\ isConnected /\ NewCall.op \notin ReadOps) =>
          /\ NewCall.outcome = "sent"
          /\ portWrites' = Append(portWrites, NewCall.frame)
          /\ responseQueue' = responseQueue
          /\ timers' = timers
     /\ \A c \in Callers : calls[c].outcome = "sent" => calls'[c] = calls[c]
     /\ (NewFrames >= 1 /\ NoneAwaited) =>
          /\ responseQueue' = responseQueue
          /\ timers' = timers
          /\ calls' = calls
    ]_vars

\* powerOn was sent, its response frame arrived afterwards while another
\* call was pending
C27_Witness ==
  \E c \in Callers :
    /\ calls[c].op = "powerOn" /\ calls[c].outcome = "sent"
    /\ \E k \in (calls[c].at + 1)..Len(emitted) : emitted[k].command = POWER_ON
    /\ \E d \in Callers : calls[d].outcome = "pending" /\ HasEntry(d)

(***************************************************************************)
(* Properties of the extractor's consumption (SpecExtract)                 *)
(***************************************************************************)
\* the chunk delivered in this step and the buffer the extractor runs on
Chunk == Take(stream, Len(stream) - Len(stream'))

Input == buffer \o Chunk

\* a header pair, a length byte L and at least 3 + L bytes
FrameAtHead(b) ==
  /\ Len(b) >= 3
  /\ b[1] = HEADER /\ b[2] = HEADER
  /\ Len(b) >= 3 + b[3]

IsSuffix(s, t) == Len(s) <= Len(t) /\ s = Drop(t, Len(t) - Len(s))

(***************************************************************************)
(* C28.  Whenever the buffer starts with a header pair and a length byte L *)
(* and holds at least 3 + L bytes, the extractor removes those 3 + L bytes *)
(* from the front of the buffer, whether or not the footer is valid,       *)
(* whether or not a call is pending for the command id and whatever the    *)
(* payload is, and goes on with the remaining bytes: what it leaves is a   *)
(* suffix of the bytes behind the frame.                                   *)
(***************************************************************************)
C28_CompleteFrameConsumed ==
  [][(stream' # stream /\ FrameAtHead(Input)) =>
       IsSuffix(buffer', Drop(Input, 3 + Input[3]))]_vars

\* What holds: the frame is consumed when the buffer has reached the
\* minimum packet size and the dispatcher did not throw.
C28_ConsumedUnlessThrown ==
  [][(stream' # stream /\ FrameAtHead(Input)
        /\ Len(Input) >= MIN_PACKET_SIZE /\ handlerErrors' = handlerErrors) =>
       IsSuffix(buffer', Drop(Input, 3 + Input[3]))]_vars

(***************************************************************************)
(* Properties of the vector decoding (SpecExtract)                         *)
(***************************************************************************)
\* the command ids of the vector branch of _decodeData
VectorReads == {GET_ANGLES, GET_COORDS, GET_ENCODERS}

\* the response to call c has been handed to the dispatcher
Answered(c) ==
  \E k \in (calls[c].at + 1)..Len(emitted) :
    emitted[k].command = calls[c].command

\* every vector read is pending with its entry or resolved by its response
VectorReadsSettled ==
  \A c \in Callers :
    calls[c].command \in VectorReads =>
      /\ calls[c].outcome = "pending" => (HasEntry(c) /\ ~Answered(c))
      /\ Answered(c) => (calls[c].outcome = "resolved" /\ calls[c].value # <<>>)

(***************************************************************************)
(* C29.  A correctly framed response to a pending angle, coordinate or     *)
(* encoder-vector read resolves the pending caller for every payload       *)
(* length; decoding never raises an error and never leaves the caller's    *)
(* entry removed but unresolved.                                           *)
(***************************************************************************)
C29_VectorReadAlwaysResolved ==
  /\ VectorReadsSettled
  /\ OpCommand(scenario.op) \in VectorReads => handlerErrors = 0

\* What holds: payloads of an even number of bytes are decoded and resolve
\* the caller.
C29_EvenPayloadResolved ==
  Len(scenario.payload) % 2 = 0 =>
    /\ VectorReadsSettled
    /\ OpCommand(scenario.op) \in VectorReads => handlerErrors = 0

(***************************************************************************)
(* Properties of the resynchronisation on a fragmented stream              *)
(* (SpecExtract)                                                           *)
(***************************************************************************)
\* no two consecutive header sentinels
NoHeaderPair(g) ==
  \A i \in 1..(Len(g) - 1) : ~(g[i] = HEADER /\ g[i + 1] = HEADER)

(***************************************************************************)
(* C30.  For every byte stream made of garbage bytes that contain no two   *)
(* consecutive header sentinels followed by one valid frame, and for every *)
(* way of splitting that stream into chunks fed incrementally, the         *)
(* extractor emits the valid frame exactly once: never another frame,      *)
(* never the frame twice, and the frame once the stream is delivered.      *)
(***************************************************************************)
C30_FrameOnceForEverySplit ==
  (scenario.kind = "garbage" /\ NoHeaderPair(scenario.garbage)) =>
    /\ emitted \in {<<>>, <<TheFrame>>}
    /\ Delivered => emitted = <<TheFrame>>

\* The same for garbage that does not end with a header sentinel either:
\* the frame is still lost for some splits.
C30_CleanGarbageForEverySplit ==
  (scenario.kind = "garbage" /\ CleanGarbage(scenario.garbage)) =>
    /\ emitted \in {<<>>, <<TheFrame>>}
    /\ Delivered => emitted = <<TheFrame>>

\* What holds for every split: nothing but the frame is emitted, at most
\* once, and it is emitted when the garbage is too short for the buffer to
\* reach the minimum packet size before the header pair is complete.
C30_ShortCleanGarbageForEverySplit ==
  (scenario.kind = "garbage" /\ CleanGarbage(scenario.garbage)) =>
    /\ emitted \in {<<>>, <<TheFrame>>}
    /\ (Delivered /\ Len(scenario.garbage) + 1 < MIN_PACKET_SIZE) =>
         emitted = <<TheFrame>>

(***************************************************************************)
(* Properties of the frame layout (SpecOps)                                *)
(***************************************************************************)
\* the payload of a written frame: what lies between CMD and the footer
PayloadOf(bytes) == SubSeq(bytes, 5, Len(bytes) - 1)

\* [0xFE][0xFE][LEN][CMD][payload][0xFA], LEN = payload size + 2,
\* total size LEN + 3
HasLayout(bytes) ==
  /\ Len(bytes) >= 5
  /\ bytes[1] = HEADER /\ bytes[2] = HEADER
  /\ bytes[3] = Len(PayloadOf(bytes)) + 2
  /\ Len(bytes) = bytes[3] + 3
  /\ bytes[Len(bytes)] = FOOTER

\* the extractor run on the frame alone: one frame, the same boundary
ExtractsBack(bytes) ==
  LET r == ParseResponses(bytes, <<>>)
  IN  /\ r.emitted = <<[command |-> bytes[4], data |-> PayloadOf(bytes)]>>
      /\ r.buffer = <<>>
      /\ ~r.threw

(***************************************************************************)
(* C31.  Every frame written by a send has the layout                      *)
(* [0xFE][0xFE][LEN][CMD][payload][0xFA] with LEN the payload size plus 2  *)
(* and a total size of LEN + 3 bytes, CMD and payload being the command id *)
(* and the encoded arguments of the call, and the extractor applied to     *)
(* that frame computes the same boundary and recovers the same CMD and     *)
(* payload.                                                                *)
(***************************************************************************)
C31_FrameLayoutRoundTrip ==
  /\ Len(portWrites) = Len(SuccessfulSends)
  /\ \A i \in 1..Len(portWrites) :
       /\ HasLayout(portWrites[i])
       /\ WholeFrameOf(portWrites[i], SuccessfulSends[i])
       /\ ExtractsBack(portWrites[i])

\* a move with a 13-byte payload was written
C31_Witness ==
  /\ Len(portWrites) = 1
  /\ calls[1].op = "sendAngles"
  /\ Len(PayloadOf(portWrites[1])) = 13
  /\ portWrites[1][3] = 15

(***************************************************************************)
(* Properties of a playback pass (SpecPass)                                *)
(***************************************************************************)
\* caller c issues a move command in this step
Issues(c) ==
  /\ pc'[c].at = "sendAngles"
  /\ \/ pc[c].at # "sendAngles"
     \/ pc'[c].i # pc[c].i
     \/ pc'[c].pass # pc[c].pass

\* the move command the claim prescribes for frame i
PrescribedMove(i) ==
  [command |-> IF scenario.mode = "coords" THEN SEND_COORDS ELSE SEND_ANGLES,
   frame |-> i,
   args |-> IF scenario.mode = "coords" THEN <<scenario.moveSpeed, 1>>
            ELSE <<scenario.moveSpeed>>]

(***************************************************************************)
(* C32.  In one playback pass exactly one move command is issued for each  *)
(* frame, in recording order: the pass starts with frame 1 and each move   *)
(* is that of the frame after the previous one; it is SEND_ANGLES for the  *)
(* mode 'angles' and SEND_COORDS with interpolation mode 1 for 'coords',   *)
(* with the configured move speed; a pass that is not cut short by the     *)
(* stop flag ends after the last frame; no other step issues a move; and   *)
(* the power-on command has been issued before the first move.             *)
(***************************************************************************)
C32_OneMovePerFrameInOrder ==
  [][/\ \A c \in Players :
          /\ Issues(c) =>
               /\ robotLog' = robotLog (+) SetToBag({PrescribedMove(pc'[c].i)})
               /\ IF pc[c].at \in {"settle", "loopPause"}
                  THEN pc'[c].i = 1
                  ELSE pc'[c].i = pc[c].i + 1 /\ pc'[c].pass = pc[c].pass
               /\ BagIn(Cmd(POWER_ON, 0), robotLog)
          /\ (InPass(pc[c]) /\ pc[c].at # "loopPause" /\ isPlaying
                /\ pc'[c].at \in {"loopPause", "returned"}) =>
               pc[c].i = Len(PlayFrames)
     /\ (\A c \in Players : ~Issues(c)) =>
          \A i \in 1..Len(PlayFrames) :
            CopiesIn(PrescribedMove(i), robotLog')
              = CopiesIn(PrescribedMove(i), robotLog)
    ]_vars

\* a recording in mode 'coords' is in its pass at the move of frame 2
C32_Witness ==
  /\ scenario.mode = "coords"
  /\ \E c \in Players : pc[c].at = "sendAngles" /\ pc[c].i = 2
  /\ BagIn(PrescribedMove(1), robotLog)
  /\ BagIn(PrescribedMove(2), robotLog)

\* invocation c of playRecording has returned or thrown
Ended(c) ==
  /\ c <= Len(pc)
  /\ pc[c].at \in {"returned", "threw", "stateError"}

(***************************************************************************)
(* C33.  Every playRecording call without looping eventually ends, and a   *)
(* playRecording call (looping or not) on which stopPlayback was called    *)
(* while it was Playing eventually ends.                                   *)
(***************************************************************************)
C33_PlaybackEnds ==
  \A c \in 1..MaxLoopCalls :
    /\ (c <= Len(pc) /\ pc[c].op = "playRecording" /\ ~pc[c].loop)
         ~> Ended(c)
    /\ (c <= Len(pc) /\ pc[c].op = "playRecording" /\ pc[c].stopped)
         ~> Ended(c)

\* a playRecording call ends with the recorder Idle unless another
\* playRecording invocation is between its guard and its end
C33_EndsIdle ==
  [][\A c \in Players :
       (~Ended(c) /\ pc'[c].at = "returned"
          /\ \A d \in Players \ {c} : Ended(d)) => ~isPlaying'
    ]_vars

(***************************************************************************)
(* Properties of successive recording sessions (SpecSessions)              *)
(***************************************************************************)
\* the startRecording invocations that passed the guard, and those of them
\* that started a sampling loop
StartCalls ==
  {c \in 1..Len(pc) : pc[c].op = "startRecording" /\ pc[c].at # "stateError"}

OkStarts == {c \in StartCalls : pc[c].at = "returned"}

\* the startRecording invocation that started sampling loop k
SessionOf(k) ==
  CHOOSE c \in OkStarts : Cardinality({d \in OkStarts : d <= c}) = k

\* the startRecording invocation that last cleared the accumulator
Owner == CHOOSE c \in StartCalls : \A d \in StartCalls : d <= c

\* the sampling loops with a read in flight or a tick scheduled
RunningChains ==
  {k \in 1..Len(chains) : chains[k].state \in {"reading", "timer"}}

\* sampling loop k appends a frame, or begins a new read, in this step
Appends(k) ==
  /\ chains[k].state = "reading"
  /\ chains'[k].state # "reading"
  /\ Len(currentRecording') = Len(currentRecording) + 1

BeginsRead(k) ==
  /\ chains[k].state = "timer"
  /\ chains'[k].state = "reading"

(***************************************************************************)
(* C34.  With every call awaited before the next one is made, at most one  *)
(* sampling loop is running at any time, and a sampling loop appends a     *)
(* frame or begins a further read only if it is the loop of the session    *)
(* that owns the accumulator.                                              *)
(***************************************************************************)
C34_NoTickOfEarlierSession ==
  /\ [](Cardinality(RunningChains) <= 1)
  /\ [][\A k \in 1..Len(chains) :
          (Appends(k) \/ BeginsRead(k)) => SessionOf(k) = Owner]_vars

\* the last invocation is a startRecording whose servo release failed, made
\* after a stopRecording that passed its guard
FailedStartAfterStop ==
  /\ Len(pc) >= 2
  /\ pc[Len(pc)].op = "startRecording"
  /\ pc[Len(pc)].at = "threw"
  /\ pc[Len(pc) - 1].op = "stopRecording"
  /\ pc[Len(pc) - 1].at # "stateError"

(***************************************************************************)
(* C35.  After a startRecording that failed in the servo release, made     *)
(* after a stopRecording, the recorder is Idle and the accumulator still   *)
(* holds the frames that the stopRecording counted.                        *)
(***************************************************************************)
C35_FailedStartKeepsFrames ==
  FailedStartAfterStop =>
    /\ ~isRecording
    /\ Len(currentRecording) >= pc[Len(pc) - 1].frameCount

\* a startRecording refused by its guard changes nothing
C35_RefusedStartKeepsAll ==
  [][(RecCall("startRecording") /\ pc'[Len(pc')].at = "stateError") =>
       UNCHANGED <<isRecording, isPlaying, currentRecording, chains,
                   recordingTimer, recordingStartTime>>]_vars

\* stopPlayback has been called after playRecording invocation c was made
\* and before it ended
StopCalledDuring(c) ==
  /\ ~Ended(c)
  /\ \E d \in (c + 1)..Len(pc) : pc[d].op = "stopPlayback"

(***************************************************************************)
(* C36.  A playRecording invocation issues no move command once            *)
(* stopPlayback has been called between its call and its end, also when    *)
(* the call came while the arm was being powered or during the pause       *)
(* after power-on.                                                         *)
(***************************************************************************)
C36_StopAtAnyTimeEndsPlayback ==
  [][\A c \in Players : StopCalledDuring(c) => ~Issues(c)]_vars

\* playback c was stopped by a stopPlayback call, and a playRecording call
\* was made after that stopPlayback call
NewPlayAfterStop(c) ==
  /\ pc[c].stopped
  /\ \E s \in (c + 1)..Len(pc) :
       /\ pc[s].op = "stopPlayback"
       /\ \E d \in (s + 1)..Len(pc) : pc[d].op = "playRecording"

(***************************************************************************)
(* C37.  A playback on which stopPlayback was called while it was Playing  *)
(* issues no further move command, also when a new playRecording call is   *)
(* made after the stopPlayback call and before the stopped playback has    *)
(* reached its frame boundary.                                             *)
(***************************************************************************)
C37_StopSurvivesNewPlayback ==
  [][\A c \in Players : NewPlayAfterStop(c) => ~Issues(c)]_vars

(***************************************************************************)
(* Properties of the value ranges of the moves and encoders (SpecOps)      *)
(***************************************************************************)
\* the angles or coordinates of a move, in thousandths, and the 0-based
\* offset of each in the payload
MoveValues(op, args) ==
  CASE op \in {"sendAngles", "sendCoords"} -> args[1]
    [] op \in {"sendAngle", "sendCoord"} -> <<args[2]>>
    [] OTHER -> <<>>

ValueOffset(op, i) ==
  IF op \in {"sendAngle", "sendCoord"} THEN 1 ELSE 2 * (i - 1)

Int16 == -32768..32767

Overflows(op, args) ==
  \E i \in 1..Len(MoveValues(op, args)) :
    MathRound100(MoveValues(op, args)[i]) \notin Int16

(***************************************************************************)
(* C38.  A move with an angle or coordinate whose value times 100,         *)
(* rounded, is outside -32768..32767 fails and writes nothing, and every   *)
(* frame a move writes holds each value times 100, rounded, as a signed    *)
(* 16-bit big-endian field.                                                *)
(***************************************************************************)
C38_Int16OverflowFails ==
  [][IsCallStep =>
       /\ Overflows(NewCall.op, NewCall.args) =>
            /\ NewCall.outcome \in {"valerr", "connerr", "encerr"}
            /\ NothingSent
       /\ NewCall.frame # <<>> =>
            \A i \in 1..Len(MoveValues(NewCall.op, NewCall.args)) :
              ReadInt16BE(PayloadOf(NewCall.frame),
                          ValueOffset(NewCall.op, i))
                = MathRound100(MoveValues(NewCall.op, NewCall.args)[i])
    ]_vars

\* a connected controller refused a single-joint move of 3276.75 degrees
\* whose joint and speed are valid, and wrote nothing
C38_Witness ==
  /\ Len(calls) = 1
  /\ calls[1].op = "sendAngle"
  /\ calls[1].connected
  /\ calls[1].args = <<1, 327675, 100>>
  /\ calls[1].outcome = "encerr"
  /\ portWrites = <<>>

\* the frame a connected controller writes for the call, <<>> if none
FrameFor(op, args) == CallResult(TRUE, op, args).frame

(***************************************************************************)
(* C39.  A frame written by setEncoder or setEncoders is the frame of no   *)
(* other requested encoder value (or vector of encoder values) for the     *)
(* same joint: a value outside 0..255 is refused or encoded without loss.  *)
(***************************************************************************)
C39_EncoderValueNotReduced ==
  \A c \in Callers :
    calls[c].frame # <<>> =>
      /\ calls[c].op = "setEncoder" =>
           \A e \in EncoderValues \ {calls[c].args[2]} :
             FrameFor("setEncoder", <<calls[c].args[1], e>>) # calls[c].frame
      /\ calls[c].op = "setEncoders" =>
           \A v \in EncoderVectors \ {calls[c].args[1]} :
             FrameFor("setEncoders", <<v>>) # calls[c].frame

(***************************************************************************)
(* Properties of the entry a timeout removes (Spec)                        *)
(***************************************************************************)
\* the callers whose entry leaves the pending set in this step
EntryRemoved ==
  {d \in Callers :
     /\ HasEntry(d)
     /\ \A i \in 1..Len(responseQueue') : responseQueue'[i].call # d}

(***************************************************************************)
(* C40.  When the timeout of a pending call fires, no entry other than     *)
(* that call's own leaves the pending set, whatever the order of sends,    *)
(* responses and timeouts before it.                                       *)
(***************************************************************************)
C40_TimeoutRemovesOwnEntry ==
  [][\A c \in Callers : TimeoutOf(c) => EntryRemoved \subseteq {c}]_vars

\* The same for a timeout that finds its own entry pending: it removes that
\* entry and no other.
C40_OwnEntryWhenPending ==
  [][\A c \in Callers :
       (TimeoutOf(c) /\ HasEntry(c)) => EntryRemoved = {c}]_vars

=============================================================================
